---------------------------- MODULE Spec2Model ----------------------------
(***************************************************************************)
(* Measurement (Classes/Measurement.py): the orchestration of settings     *)
(* snapshots over the transects of one moving-boat discharge measurement.  *)
(*                                                                         *)
(* Python values are modelled by their repr as strings ("nan", "-1",       *)
(* "True", "[]"), so that one key or attribute always holds one type.      *)
(* The numeric primitives of the collaborators (filters, fit, discharge    *)
(* integration, uncertainty) are modelled as uninterpreted functions: the  *)
(* result is the record of the inputs it was computed from.                *)
(***************************************************************************)
EXTENDS Integers, Sequences, FiniteSets, TLC

VARIABLES
    transects,        \* self.transects: sequence of transect records
    mb_tests,         \* self.mb_tests: the moving-bed tests and their selection
    extrap_fit,       \* self.extrap_fit: ComputeExtrap or None
    processing,       \* self.processing
    discharge,        \* self.discharge: sequence of QComp results
    uncertainty,      \* self.uncertainty: Uncertainty or None
    qa,               \* self.qa: QAData or None
    initial_settings, \* self.initial_settings
    settings,         \* the snapshot dict the caller holds (argument of apply_settings);
                      \* a caller holds one only from taking it to applying it
    op,               \* the operation that returned last, how it ended, and whether
                      \* it repeats the apply_settings call before it
    trace,            \* the calls the last operation made on its collaborators, in order
    arg,              \* the snapshot as it was passed to the last apply_settings call
    changes,          \* number of changes the caller has made so far: edited
                      \* snapshots applied, fit changes, sensor edits, selections
    compass_eval,     \* self.compass_eval: the compass evaluations, last one last
    plot              \* the BeamDepths object of the beam-depth plot, its
                      \* checkboxes and the transect it was created for

vars == <<transects, mb_tests, extrap_fit, processing, discharge, uncertainty,
          qa, initial_settings, settings, op, trace, arg, changes, compass_eval, plot>>

measVars == <<transects, mb_tests, extrap_fit, processing, discharge,
              uncertainty, qa, initial_settings>>

\* ---------------------------------------------------------------- bounds
\* Number of transects of the measurement.
NumTransects == 2
\* Number of changes a caller makes in one behaviour: edited snapshots applied,
\* change_extrapolation calls, sensor edits and changes of the selection.
MaxChanges == 1

TIdx == 1..NumTransects

\* ---------------------------------------------------------------- values
None == "None"
NaN == "nan"
NoError == "ok"

\* An empty dict.
EmptyDict == [k \in {} |-> None]

\* Python: d[k] = v on a dict.
SetKey(d, k, v) == [x \in (DOMAIN d) \cup {k} |-> IF x = k THEN v ELSE d[x]]

\* Python: del d[k].
DelKey(d, k) == [x \in (DOMAIN d) \ {k} |-> d[x]]

\* Attributes a TransectData object has (Classes/TransectData.py).
TransectAttrs == {"boat_vel", "w_vel", "depths", "gps", "edges", "extrap",
                  "sensors", "adcp", "checked", "date_time", "in_transect_idx"}
\* Attributes of transect.depths that name a depth source.
DepthSources == {"bt_depths", "vb_depths", "ds_depths"}

\* The extrapolation exponent is an opaque token: where it came from
\* ("file", "user", "fit"), its value when given, and for a fitted exponent
\* the data it was fitted to.
ExpToken(kind, val, key) == [kind |-> kind, val |-> val, key |-> key]

\* ------------------------------------------------- transect after raw load
\* The GPS equipment of a transect: transect.gps, boat_vel.gga_vel, boat_vel.vtg_vel.
GpsKinds == {"none", "gga_vtg", "gga", "vtg"}
HasGps(kind) == kind # "none"
HasGga(kind) == kind \in {"gga_vtg", "gga"}
HasVtg(kind) == kind \in {"gga_vtg", "vtg"}

\* load_trdi: the state of one transect when load_trdi returns.
LoadedTransect(kind, chk, ref, hsrc, vbds, fileExp) ==
    [ checked |-> chk,
      gps |-> HasGps(kind), gga |-> HasGga(kind), vtg |-> HasVtg(kind),
      vb_ds |-> vbds,
      manufacturer |-> "TRDI", model |-> "Rio Grande",
      heading |-> hsrc,
      sensors |-> "file",
      q_method |-> "WR2",
      nav |-> ref,
      composite |-> "Off",
      bt |-> [ beam_filter |-> "4", d_filter |-> "Manual", d_filter_threshold |-> "mmt",
               w_filter |-> "Manual", w_filter_threshold |-> "mmt",
               smooth_filter |-> "Off", interpolate |-> "None" ],
      gga_vel |-> [ gps_diff_qual_filter |-> "2", gps_altitude_filter |-> "Off",
                    gps_altitude_filter_change |-> "3",
                    gps_HDOP_filter |-> "Off", gps_HDOP_filter_max |-> "2.5",
                    gps_HDOP_filter_change |-> "1",
                    smooth_filter |-> "Off",
                    interpolate |-> IF HasGps(kind) THEN "HoldLast" ELSE "None" ],
      vtg_vel |-> [ gps_HDOP_filter |-> "Off", gps_HDOP_filter_max |-> "2.5",
                    gps_HDOP_filter_change |-> "1", smooth_filter |-> "Off",
                    interpolate |-> IF HasGps(kind) THEN "HoldLast" ELSE "None" ],
      depths |-> [ selected |-> "bt_depths", composite |-> "Off",
                   avg_method |-> "IDW", valid_data_method |-> "TRDI",
                   filter_type |-> "TRDI", interp_type |-> "None" ],
      w_vel |-> [ beam_filter |-> "4", d_filter |-> "Manual", d_filter_threshold |-> "mmt",
                  w_filter |-> "Manual", w_filter_threshold |-> "mmt",
                  smooth_filter |-> "Off", snr_filter |-> "Off",
                  wt_depth_filter |-> "True", excluded_dist_m |-> "0.1",
                  interpolate_ens |-> "None", interpolate_cells |-> "None" ],
      edges |-> [ rec_edge_method |-> "Fixed", vel_method |-> "MeasMag" ],
      extrap |-> [ top_method |-> "Power", bot_method |-> "Power",
                   exponent |-> ExpToken("file", fileExp, {}) ] ]

\* load_trdi: the navigation reference WR2 used, BT when a transect lacks it.
LoadReference(ref, kinds) ==
    IF ref = "GGA" /\ \A n \in TIdx : HasGga(kinds[n]) THEN "gga_vel"
    ELSE IF ref = "VTG" /\ \A n \in TIdx : HasVtg(kinds[n]) THEN "vtg_vel"
    ELSE "bt_vel"


\* ------------------------------------- collaborators (Classes/*.py, not in src)
\* The settings and sensor data a transect's processed velocities and depths
\* are computed from: everything upstream of the extrapolation fit.
DataKey(t) ==
    [ sensors |-> t.sensors, heading |-> t.heading, q_method |-> t.q_method,
      nav |-> t.nav, composite |-> t.composite, bt |-> t.bt,
      gga_vel |-> t.gga_vel, vtg_vel |-> t.vtg_vel, depths |-> t.depths,
      wf |-> [t.w_vel EXCEPT !.interpolate_ens = "-", !.interpolate_cells = "-"] ]

\* A filter's stored threshold when none is passed: computed for Auto, nan for Off.
ModeThreshold(mode, old) ==
    IF mode = "Auto" THEN "auto" ELSE IF mode = "Off" THEN NaN ELSE old

\* TransectData.change_q_ensembles(proc_method)
change_q_ensembles(t, proc_method) == [t EXCEPT !.q_method = proc_method]

\* TransectData.change_nav_reference(update, new_nav_ref): 'BT', 'bt_vel', ...
NavName(ref) ==
    IF ref \in {"BT", "bt_vel"} THEN "bt_vel"
    ELSE IF ref \in {"GGA", "gga_vel"} THEN "gga_vel"
    ELSE IF ref \in {"VTG", "vtg_vel"} THEN "vtg_vel"
    ELSE ref
change_nav_reference(t, new_nav_ref) == [t EXCEPT !.nav = NavName(new_nav_ref)]

\* TransectData.composite_tracks(update, setting)
composite_tracks(t, setting) == [t EXCEPT !.composite = setting]

\* TransectData.boat_filters(update, **kwargs): BoatData.apply_filter on bt_vel;
\* a filter that is not passed keeps its stored setting.
boat_filters(t, kw) ==
    LET K == DOMAIN kw
        b == t.bt
        d == IF "difference" \in K THEN kw["difference"] ELSE b.d_filter
        w == IF "vertical" \in K THEN kw["vertical"] ELSE b.w_filter
    IN [t EXCEPT !.bt =
          [ b EXCEPT
            !.d_filter = d,
            !.d_filter_threshold =
                IF "difference_threshold" \in K THEN kw["difference_threshold"]
                ELSE IF "difference" \in K THEN ModeThreshold(d, @) ELSE @,
            !.w_filter = w,
            !.w_filter_threshold =
                IF "vertical_threshold" \in K THEN kw["vertical_threshold"]
                ELSE IF "vertical" \in K THEN ModeThreshold(w, @) ELSE @,
            !.beam_filter = IF "beam" \in K THEN kw["beam"] ELSE @,
            !.smooth_filter = IF "other" \in K THEN kw["other"] ELSE @ ]]

\* TransectData.boat_interpolations(update, target, method)
boat_interpolations(t, target, method) ==
    IF target = "BT" THEN [t EXCEPT !.bt.interpolate = method]
    ELSE [t EXCEPT !.gga_vel.interpolate = IF t.gga THEN method ELSE @,
                   !.vtg_vel.interpolate = IF t.vtg THEN method ELSE @]

\* TransectData.gps_filters(update, **kwargs): apply_gps_filter on gga_vel and on
\* vtg_vel, each when it exists.
gps_filters(t, kw) ==
    LET K == DOMAIN kw
        h == IF "hdop" \in K THEN kw["hdop"] ELSE None
    IN [t EXCEPT
          !.gga_vel = IF ~t.gga THEN @ ELSE
             [ @ EXCEPT
               !.gps_diff_qual_filter =
                    IF "differential" \in K THEN kw["differential"] ELSE @,
               !.gps_altitude_filter =
                    IF "altitude" \in K THEN kw["altitude"] ELSE @,
               !.gps_altitude_filter_change =
                    IF "altitude_threshold" \in K THEN kw["altitude_threshold"]
                    ELSE IF "altitude" \in K THEN ModeThreshold(kw["altitude"], @) ELSE @,
               !.gps_HDOP_filter = IF "hdop" \in K THEN h ELSE @,
               !.gps_HDOP_filter_max =
                    IF "hdop_max_threshold" \in K THEN kw["hdop_max_threshold"]
                    ELSE IF "hdop" \in K THEN ModeThreshold(h, @) ELSE @,
               !.gps_HDOP_filter_change =
                    IF "hdop_change_threshold" \in K THEN kw["hdop_change_threshold"]
                    ELSE IF "hdop" \in K THEN ModeThreshold(h, @) ELSE @,
               !.smooth_filter = IF "other" \in K THEN kw["other"] ELSE @ ],
          !.vtg_vel = IF ~t.vtg THEN @ ELSE
             [ @ EXCEPT
               !.gps_HDOP_filter = IF "hdop" \in K THEN h ELSE @,
               !.gps_HDOP_filter_max =
                    IF "hdop_max_threshold" \in K THEN kw["hdop_max_threshold"]
                    ELSE IF "hdop" \in K THEN ModeThreshold(h, @) ELSE @,
               !.gps_HDOP_filter_change =
                    IF "hdop_change_threshold" \in K THEN kw["hdop_change_threshold"]
                    ELSE IF "hdop" \in K THEN ModeThreshold(h, @) ELSE @,
               !.smooth_filter = IF "other" \in K THEN kw["other"] ELSE @ ]]

\* TransectData.set_depth_reference(update, setting)
set_depth_reference(t, setting) == [t EXCEPT !.depths.selected = setting]

\* TransectData.process_depths(update, filter_method, interpolation_method,
\*                             composite_setting, avg_method, valid_method)
process_depths(t, filter_method, interpolation_method, composite_setting, avg_method, valid_method) ==
    [t EXCEPT !.depths.filter_type = filter_method,
              !.depths.interp_type = interpolation_method,
              !.depths.composite = composite_setting,
              !.depths.avg_method = avg_method,
              !.depths.valid_data_method = valid_method]

\* WaterData.apply_filter(transect, **kwargs)
wt_apply_filter(t, kw) ==
    LET K == DOMAIN kw
        w == t.w_vel
        d == IF "difference" \in K THEN kw["difference"] ELSE w.d_filter
        v == IF "vertical" \in K THEN kw["vertical"] ELSE w.w_filter
    IN [t EXCEPT !.w_vel =
          [ w EXCEPT
            !.d_filter = d,
            !.d_filter_threshold =
                IF "difference_threshold" \in K THEN kw["difference_threshold"]
                ELSE IF "difference" \in K THEN ModeThreshold(d, @) ELSE @,
            !.w_filter = v,
            !.w_filter_threshold =
                IF "vertical_threshold" \in K THEN kw["vertical_threshold"]
                ELSE IF "vertical" \in K THEN ModeThreshold(v, @) ELSE @,
            !.beam_filter = IF "beam" \in K THEN kw["beam"] ELSE @,
            !.smooth_filter = IF "other" \in K THEN kw["other"] ELSE @,
            !.snr_filter = IF "snr" \in K THEN kw["snr"] ELSE @,
            !.wt_depth_filter = IF "wt_depth" \in K THEN kw["wt_depth"] ELSE @,
            !.excluded_dist_m = IF "excluded" \in K THEN kw["excluded"] ELSE @ ]]

\* WaterData.apply_interpolation(transect, ens_interp, cells_interp)
wt_apply_interpolation(t, ens_interp, cells_interp) ==
    [t EXCEPT !.w_vel.interpolate_ens = ens_interp,
              !.w_vel.interpolate_cells = cells_interp]

\* ExtrapData.set_extrap_data(top, bot, exp)
set_extrap_data(t, top, bot, exp) ==
    [t EXCEPT !.extrap = [top_method |-> top, bot_method |-> bot, exponent |-> exp]]

\* MovingBedTests.auto_use_2_correct(moving_bed_tests, boat_ref=None): the
\* use-to-correct selection, a function of the tests and the boat reference.
auto_use_2_correct(mb, boat_ref) == [mb EXCEPT !.use_2_correct = boat_ref]

\* self.extrap_fit is None
NoFit ==
    [ exists |-> FALSE, fit_method |-> None,
      sel_fit |-> [top_method |-> None, bot_method |-> None,
                   exponent |-> ExpToken(None, None, {})],
      subsection |-> None, threshold |-> None,
      q_sensitivity |-> [computed |-> FALSE,
                         fit |-> [top_method |-> None, bot_method |-> None,
                                  exponent |-> ExpToken(None, None, {})],
                         data |-> {}] ]

\* The checked transects with the data each holds: what a fit is computed from.
FitData(ts) == { <<n, DataKey(ts[n])>> : n \in {i \in DOMAIN ts : ts[i].checked} }

\* ComputeExtrap.process_profiles(transects, data_type): sel_fit[-1] afterwards.
\* Automatic: fitted to the data; Manual: the values stored on the transects.
process_profiles(fit, ts) ==
    IF fit.fit_method = "Manual"
    THEN [fit EXCEPT !.sel_fit = ts[Len(ts)].extrap]
    ELSE [fit EXCEPT !.sel_fit =
            [ top_method |-> "Power", bot_method |-> "Power",
              exponent |-> ExpToken("fit", fit.threshold, FitData(ts)) ]]

\* ComputeExtrap().populate_data(transects, compute_sensitivity=False)
ComputeExtrap_populate_data(ts) ==
    process_profiles([NoFit EXCEPT !.exists = TRUE, !.fit_method = "Automatic",
                                   !.subsection = "[0, 100]", !.threshold = "20"], ts)

\* ExtrapQSensitivity().populate_data(transects, extrap_fits)
ExtrapQSensitivity_populate_data(ts, sel_fit) ==
    [computed |-> TRUE, fit |-> sel_fit, data |-> FitData(ts)]

\* QComp().populate_data(data_in=transect, moving_bed_data=mb_tests)
QComp_populate_data(t, mb) ==
    [ data |-> DataKey(t),
      interp |-> <<t.w_vel.interpolate_ens, t.w_vel.interpolate_cells>>,
      extrap |-> t.extrap, edges |-> t.edges, mb |-> mb.use_2_correct ]

\* self.uncertainty is None
NoUncertainty ==
    [exists |-> FALSE, q |-> <<>>, checked |-> <<>>, sens |-> NoFit.q_sensitivity]

\* Uncertainty().compute_uncertainty(meas)
compute_uncertainty(M) ==
    [ exists |-> TRUE, q |-> M.discharge,
      checked |-> [n \in DOMAIN M.transects |-> M.transects[n].checked],
      sens |-> M.extrap_fit.q_sensitivity ]

\* QAData(meas)
QAData(M) == [exists |-> TRUE, q |-> M.discharge]

\* ------------------------------------------------- the running operation
\* The measurement as an operation sees it: its attributes, the snapshot it
\* works on, the calls made so far and the exception raised, if any.
Mach(s) ==
    [ transects |-> transects, mb_tests |-> mb_tests, extrap_fit |-> extrap_fit,
      processing |-> processing, discharge |-> discharge,
      uncertainty |-> uncertainty, qa |-> qa,
      initial_settings |-> initial_settings,
      settings |-> s, trace |-> <<>>, err |-> NoError ]

Ok(M) == M.err = NoError
Raise(M, e) == [M EXCEPT !.err = e]
Log(M, name, n) == [M EXCEPT !.trace = Append(@, <<name, n>>)]
\* settings[k] for every k of keys: KeyError when one is missing.
HasKeys(M, keys) == keys \subseteq DOMAIN M.settings


\* Python: if k not in d: d[k] = v
SetDefault(d, k, v) == IF k \in DOMAIN d THEN d ELSE SetKey(d, k, v)

\* ------------------------------------------------------ current_settings
\* current_settings: the transect the snapshot is read from.
FirstIdx(ts) ==
    IF \E n \in DOMAIN ts : ts[n].checked
    THEN CHOOSE n \in DOMAIN ts :
            ts[n].checked /\ \A i \in DOMAIN ts : ts[i].checked => n <= i
    ELSE 1

\* current_settings: navigation, composite tracks, water track, bottom track.
CurrentBoatWater(t) ==
    [ NavRef |-> t.nav,
      CompTracks |-> t.composite,
      WTbeamFilter |-> t.w_vel.beam_filter,
      WTdFilter |-> t.w_vel.d_filter,
      WTdFilterThreshold |-> t.w_vel.d_filter_threshold,
      WTwFilter |-> t.w_vel.w_filter,
      WTwFilterThreshold |-> t.w_vel.w_filter_threshold,
      WTsmoothFilter |-> t.w_vel.smooth_filter,
      WTsnrFilter |-> t.w_vel.snr_filter,
      WTwtDepthFilter |-> t.w_vel.wt_depth_filter,
      WTEnsInterpolation |-> t.w_vel.interpolate_ens,
      WTCellInterpolation |-> t.w_vel.interpolate_cells,
      WTExcludedDistance |-> t.w_vel.excluded_dist_m,
      BTbeamFilter |-> t.bt.beam_filter,
      BTdFilter |-> t.bt.d_filter,
      BTdFilterThreshold |-> t.bt.d_filter_threshold,
      BTwFilter |-> t.bt.w_filter,
      BTwFilterThreshold |-> t.bt.w_filter_threshold,
      BTsmoothFilter |-> t.bt.smooth_filter,
      BTInterpolation |-> t.bt.interpolate ]

\* current_settings: the GPS defaults written when a source is missing.
GpsDefaults(s) ==
    LET s1 == SetDefault(s, "GPSInterpolation", "None")
        s2 == IF "GPSHDOPFilter" \in DOMAIN s1 THEN s1
              ELSE SetKey(SetKey(SetKey(s1, "GPSHDOPFilter", "Off"),
                                 "GPSHDOPFilterMax", "[]"),
                          "GPSHDOPFilterChange", "[]")
    IN SetDefault(s2, "GPSSmoothFilter", "Off")

\* current_settings: the GGA block, entered only when the transect has GPS.
CurrentGga(s, t) ==
    IF ~t.gps THEN s
    ELSE IF t.gga
    THEN [ ggaDiffQualFilter |-> t.gga_vel.gps_diff_qual_filter,
           ggaAltitudeFilter |-> t.gga_vel.gps_altitude_filter,
           ggaAltitudeFilterChange |-> t.gga_vel.gps_altitude_filter_change,
           GPSHDOPFilter |-> t.gga_vel.gps_HDOP_filter,
           GPSHDOPFilterMax |-> t.gga_vel.gps_HDOP_filter_max,
           GPSHDOPFilterChange |-> t.gga_vel.gps_HDOP_filter_change,
           GPSSmoothFilter |-> t.gga_vel.smooth_filter,
           GPSInterpolation |-> t.gga_vel.interpolate ] @@ s
    ELSE GpsDefaults(
           [ ggaDiffQualFilter |-> "1", ggaAltitudeFilter |-> "Off",
             ggaAltitudeFilterChange |-> "[]", ggaSmoothFilter |-> "Off" ] @@ s)

\* current_settings: the VTG block, entered for every transect.
CurrentVtg(s, t) ==
    IF t.vtg
    THEN [ GPSHDOPFilter |-> t.vtg_vel.gps_HDOP_filter,
           GPSHDOPFilterMax |-> t.vtg_vel.gps_HDOP_filter_max,
           GPSHDOPFilterChange |-> t.vtg_vel.gps_HDOP_filter_change,
           GPSSmoothFilter |-> t.vtg_vel.smooth_filter,
           GPSInterpolation |-> t.vtg_vel.interpolate ] @@ s
    ELSE GpsDefaults(SetKey(s, "vtgSmoothFilter", "Off"))

\* current_settings: depth, extrapolation and edge entries.
CurrentDepthExtrapEdge(s, t, fit) ==
    LET e == IF ~fit.exists THEN t.extrap ELSE fit.sel_fit
    IN [ depthAvgMethod |-> t.depths.avg_method,
         depthValidMethod |-> t.depths.valid_data_method,
         depthFilterType |-> t.depths.filter_type,
         depthReference |-> t.depths.selected,
         depthComposite |-> t.depths.composite,
         depthInterpolation |-> t.depths.interp_type,
         extrapTop |-> e.top_method,
         extrapBot |-> e.bot_method,
         extrapExp |-> e.exponent,
         edgeVelMethod |-> t.edges.vel_method,
         edgeRecEdgeMethod |-> t.edges.rec_edge_method ] @@ s

\* A faulty current_settings: it stores the snapshot it returns in
\* self.initial_settings.
current_settings_SavesInitial(M) ==
    IF Len(M.transects) = 0 THEN Raise(M, "IndexError")
    ELSE LET t == M.transects[FirstIdx(M.transects)]
             snap == CurrentDepthExtrapEdge(
                         CurrentVtg(CurrentGga(CurrentBoatWater(t), t), t),
                         t, M.extrap_fit)
         IN IF t.depths.selected \notin DepthSources
            THEN Raise(M, "AttributeError")
            ELSE [M EXCEPT !.settings = snap, !.initial_settings = snap]

\* current_settings(self): the result is left in M.settings; the measurement
\* itself is only read.
current_settings(M) ==
    IF Len(M.transects) = 0 THEN Raise(M, "IndexError")
    ELSE LET t == M.transects[FirstIdx(M.transects)]
         IN IF t.depths.selected \notin DepthSources
            THEN Raise(M, "AttributeError")
            ELSE [M EXCEPT !.settings =
                    CurrentDepthExtrapEdge(
                        CurrentVtg(CurrentGga(CurrentBoatWater(t), t), t),
                        t, M.extrap_fit)]

\* ------------------------------------------------------- default bundles
\* qrev_default_interpolation_methods(settings)
qrev_default_interpolation_methods(s) ==
    [ BTInterpolation |-> "Linear",
      WTEnsInterpolation |-> "abba",
      WTCellInterpolation |-> "abba",
      GPSInterpolation |-> "Linear",
      depthInterpolation |-> "Linear",
      WTwtDepthFilter |-> "On" ] @@ s

\* np.nanmin over the transects' excluded distances (all loaded with one value).
NanMinExcluded(ts) ==
    CHOOSE d \in {ts[n].w_vel.excluded_dist_m : n \in DOMAIN ts} :
        \A n \in DOMAIN ts : ts[n].w_vel.excluded_dist_m \in {d, "0.16"}

\* qrev_default_settings: depthComposite is written by the loop over the
\* transects, at the first checked one.
DefaultDepthComposite(s, ts) ==
    IF \E n \in DOMAIN ts : ts[n].checked
    THEN SetKey(s, "depthComposite",
                IF ts[FirstIdx(ts)].vb_ds THEN "On" ELSE "Off")
    ELSE s

\* qrev_default_settings(self)
qrev_default_settings(M) ==
    LET ts == M.transects
        base ==
          [ NavRef |-> ts[1].nav,
            CompTracks |-> "Off",
            WTbeamFilter |-> "-1",
            WTdFilter |-> "Auto",
            WTdFilterThreshold |-> NaN,
            WTwFilter |-> "Auto",
            WTwFilterThreshold |-> NaN,
            WTsmoothFilter |-> "Off",
            WTsnrFilter |-> IF ts[1].manufacturer = "TRDI" THEN "Off" ELSE "Auto",
            WTExcludedDistance |->
                IF ts[1].model = "M9" /\ NanMinExcluded(ts) # "0.16"
                THEN "0.16" ELSE NanMinExcluded(ts),
            BTbeamFilter |-> "-1",
            BTdFilter |-> "Auto",
            BTdFilterThreshold |-> NaN,
            BTwFilter |-> "Auto",
            BTwFilterThreshold |-> NaN,
            BTsmoothFilter |-> "Off",
            ggaDiffQualFilter |-> "2",
            ggaAltitudeFilter |-> "Auto",
            ggaAltitudeFilterChange |-> NaN,
            vtgsmoothFilter |-> "Off",
            GPSHDOPFilter |-> "Auto",
            GPSHDOPFilterMax |-> NaN,
            GPSHDOPFilterChange |-> NaN,
            GPSSmoothFilter |-> "Off",
            depthAvgMethod |-> "IDW",
            depthValidMethod |-> "QRev",
            depthReference |-> "bt_depths",
            depthFilterType |-> "Smooth" ]
        interp == qrev_default_interpolation_methods(DefaultDepthComposite(base, ts))
    IN IF Len(ts) = 0 THEN Raise(M, "IndexError")
       ELSE [M EXCEPT !.settings =
               [edgeVelMethod |-> "MeasMag", edgeRecEdgeMethod |-> "Fixed"] @@ interp]

\* no_filter_interp_settings(self): its first statement reads
\* self.transects[0].boatVel, which no transect has.
no_filter_interp_settings(M) ==
    IF Len(M.transects) = 0 THEN Raise(M, "IndexError")
    ELSE IF "boatVel" \notin TransectAttrs THEN Raise(M, "AttributeError")
    ELSE [M EXCEPT !.settings =
       [ NavRef |-> M.transects[1].nav,
         CompTracks |-> "Off",
         WTbeamFilter |-> "3",
         WTdFilter |-> "Off",
         WTdFilterThreshold |-> NaN,
         WTwFilter |-> "Off",
         WTwFilterThreshold |-> NaN,
         WTsmoothFilter |-> "Off",
         WTsnrFilter |-> "Off",
         WTExcludedDistance |-> NanMinExcluded(M.transects),
         BTbeamFilter |-> "3",
         BTdFilter |-> "Off",
         BTdFilterThreshold |-> NaN,
         BTwFilter |-> "Off",
         BTwFilterThreshold |-> NaN,
         BTsmoothFilter |-> "Off",
         ggaDiffQualFilter |-> "1",
         ggaAltitudeFilter |-> "Off",
         ggaAltitudeFilterChange |-> NaN,
         vtgsmoothFilter |-> "Off",
         GPSHDOPFilter |-> "Off",
         GPSHDOPFilterMax |-> NaN,
         GPSHDOPFilterChange |-> NaN,
         GPSSmoothFilter |-> "Off",
         depthAvgMethod |-> "IDW",
         depthValidMethod |-> "QRev",
         depthReference |-> "btDepths",
         depthFilterType |-> "None",
         depthComposite |-> "Off",
         BTInterpolation |-> "None",
         WTEnsInterpolation |-> "None",
         WTCellInterpolation |-> "None",
         GPSInterpolation |-> "None",
         depthInterpolation |-> "None",
         WTwtDepthFilter |-> "Off",
         edgeVelMethod |-> "MeasMag",
         edgeRecEdgeMethod |-> "Fixed" ]]


\* --------------------------------------------- apply_settings, by stage
SetT(M, n, t) == [M EXCEPT !.transects[n] = t]

\* 'Processing' in settings: change_q_ensembles and self.processing.
StageQEnsembles(M, n) ==
    IF ~Ok(M) \/ "Processing" \notin DOMAIN M.settings THEN M
    ELSE Log([SetT(M, n, change_q_ensembles(M.transects[n], M.settings["Processing"]))
                EXCEPT !.processing = M.settings["Processing"]],
             "change_q_ensembles", n)

\* Navigation reference, and the moving-bed selection for the new reference.
StageNavReference(M, n) ==
    IF ~Ok(M) THEN M
    ELSE IF ~HasKeys(M, {"NavRef"}) THEN Raise(M, "KeyError")
    ELSE IF M.transects[n].nav = M.settings["NavRef"] THEN M
    ELSE LET M1 == Log(SetT(M, n, change_nav_reference(M.transects[n],
                                                        M.settings["NavRef"])),
                       "change_nav_reference", n)
         IN IF M1.mb_tests.n > 0
            THEN Log([M1 EXCEPT !.mb_tests =
                        auto_use_2_correct(M1.mb_tests, M.settings["NavRef"])],
                     "auto_use_2_correct", n)
            ELSE M1

\* Composite tracks, when the transect's state differs from the snapshot.
StageCompositeTracks(M, n) ==
    IF ~Ok(M) THEN M
    ELSE IF ~HasKeys(M, {"CompTracks"}) THEN Raise(M, "KeyError")
    ELSE IF M.transects[n].composite = M.settings["CompTracks"] THEN M
    ELSE Log(SetT(M, n, composite_tracks(M.transects[n], M.settings["CompTracks"])),
             "composite_tracks", n)

\* A filter mode and, for Manual, its threshold: the keys read and the kwargs built.
ModeKeys(s, mode, thr) ==
    {mode} \cup (IF mode \in DOMAIN s /\ s[mode] = "Manual" THEN thr ELSE {})

\* The keys the bottom-track filter block reads. The beam and smooth entries
\* are read in the else branch of the vertical-velocity test.
BtKeys(s) ==
    ModeKeys(s, "BTdFilter", {"BTdFilterThreshold"})
    \cup ModeKeys(s, "BTwFilter", {"BTwFilterThreshold"})
    \cup (IF "BTwFilter" \in DOMAIN s /\ s["BTwFilter"] = "Manual" THEN {}
          ELSE {"BTbeamFilter", "BTsmoothFilter"})

\* bt_kwargs
BtKwargs(s) ==
    LET d == IF s["BTdFilter"] = "Manual"
             THEN [difference |-> s["BTdFilter"],
                   difference_threshold |-> s["BTdFilterThreshold"]]
             ELSE [difference |-> s["BTdFilter"]]
        w == IF s["BTwFilter"] = "Manual"
             THEN [vertical |-> s["BTwFilter"],
                   vertical_threshold |-> s["BTwFilterThreshold"]]
             ELSE [vertical |-> s["BTwFilter"],
                   beam |-> s["BTbeamFilter"],
                   other |-> s["BTsmoothFilter"]]
    IN w @@ d

StageBoatFilters(M, n) ==
    IF ~Ok(M) THEN M
    ELSE IF ~HasKeys(M, BtKeys(M.settings)) THEN Raise(M, "KeyError")
    ELSE Log(SetT(M, n, boat_filters(M.transects[n], BtKwargs(M.settings))),
             "boat_filters", n)

StageBtInterpolation(M, n) ==
    IF ~Ok(M) THEN M
    ELSE IF ~HasKeys(M, {"BTInterpolation"}) THEN Raise(M, "KeyError")
    ELSE Log(SetT(M, n, boat_interpolations(M.transects[n], "BT",
                                            M.settings["BTInterpolation"])),
             "bt_interpolation", n)

HdopKeys(s) ==
    ModeKeys(s, "GPSHDOPFilter", {"GPSHDOPFilterMax", "GPSHDOPFilterChange"})
    \cup {"GPSSmoothFilter"}

HdopKwargs(s) ==
    IF s["GPSHDOPFilter"] = "Manual"
    THEN [hdop |-> s["GPSHDOPFilter"],
          hdop_max_threshold |-> s["GPSHDOPFilterMax"],
          hdop_change_threshold |-> s["GPSHDOPFilterChange"],
          other |-> s["GPSSmoothFilter"]]
    ELSE [hdop |-> s["GPSHDOPFilter"], other |-> s["GPSSmoothFilter"]]

GgaKeys(s) ==
    {"ggaDiffQualFilter"}
    \cup ModeKeys(s, "ggaAltitudeFilter", {"ggaAltitudeFilterChange"})
    \cup HdopKeys(s)

\* gga_kwargs
GgaKwargs(s) ==
    (IF s["ggaAltitudeFilter"] = "Manual"
     THEN [differential |-> s["ggaDiffQualFilter"],
           altitude |-> s["ggaAltitudeFilter"],
           altitude_threshold |-> s["ggaAltitudeFilterChange"]]
     ELSE [differential |-> s["ggaDiffQualFilter"],
           altitude |-> s["ggaAltitudeFilter"]])
    @@ HdopKwargs(s)

\* GGA filters, for a transect that has GPS and a GGA velocity.
StageGgaFilters(M, n) ==
    IF ~Ok(M) \/ ~M.transects[n].gps \/ ~M.transects[n].gga THEN M
    ELSE IF ~HasKeys(M, GgaKeys(M.settings)) THEN Raise(M, "KeyError")
    ELSE Log(SetT(M, n, gps_filters(M.transects[n], GgaKwargs(M.settings))),
             "gga_filters", n)

\* VTG filters, for a transect that has GPS and a VTG velocity.
StageVtgFilters(M, n) ==
    IF ~Ok(M) \/ ~M.transects[n].gps \/ ~M.transects[n].vtg THEN M
    ELSE IF ~HasKeys(M, HdopKeys(M.settings)) THEN Raise(M, "KeyError")
    ELSE Log(SetT(M, n, gps_filters(M.transects[n], HdopKwargs(M.settings))),
             "vtg_filters", n)

\* GPS interpolation, for a transect that has GPS.
StageGpsInterpolation(M, n) ==
    IF ~Ok(M) \/ ~M.transects[n].gps THEN M
    ELSE IF ~HasKeys(M, {"GPSInterpolation"}) THEN Raise(M, "KeyError")
    ELSE Log(SetT(M, n, boat_interpolations(M.transects[n], "GPS",
                                            M.settings["GPSInterpolation"])),
             "gps_interpolation", n)

StageDepthReference(M, n) ==
    IF ~Ok(M) THEN M
    ELSE IF ~HasKeys(M, {"depthReference"}) THEN Raise(M, "KeyError")
    ELSE Log(SetT(M, n, set_depth_reference(M.transects[n],
                                            M.settings["depthReference"])),
             "set_depth_reference", n)

StageProcessDepths(M, n) ==
    IF ~Ok(M) THEN M
    ELSE IF ~HasKeys(M, {"depthFilterType", "depthInterpolation", "depthComposite",
                         "depthAvgMethod", "depthValidMethod"})
         THEN Raise(M, "KeyError")
    ELSE Log(SetT(M, n, process_depths(M.transects[n],
                                       M.settings["depthFilterType"],
                                       M.settings["depthInterpolation"],
                                       M.settings["depthComposite"],
                                       M.settings["depthAvgMethod"],
                                       M.settings["depthValidMethod"])),
             "process_depths", n)

WtKeys(s) ==
    ModeKeys(s, "WTdFilter", {"WTdFilterThreshold"})
    \cup ModeKeys(s, "WTwFilter", {"WTwFilterThreshold"})
    \cup {"WTbeamFilter", "WTsmoothFilter", "WTsnrFilter", "WTwtDepthFilter",
          "WTExcludedDistance"}

\* wt_kwargs
WtKwargs(s) ==
    (IF s["WTdFilter"] = "Manual"
     THEN [difference |-> s["WTdFilter"],
           difference_threshold |-> s["WTdFilterThreshold"]]
     ELSE [difference |-> s["WTdFilter"]])
    @@ (IF s["WTwFilter"] = "Manual"
        THEN [vertical |-> s["WTwFilter"],
              vertical_threshold |-> s["WTwFilterThreshold"]]
        ELSE [vertical |-> s["WTwFilter"]])
    @@ [beam |-> s["WTbeamFilter"], other |-> s["WTsmoothFilter"],
        snr |-> s["WTsnrFilter"], wt_depth |-> s["WTwtDepthFilter"],
        excluded |-> s["WTExcludedDistance"]]

StageWtFilters(M, n) ==
    IF ~Ok(M) THEN M
    ELSE IF ~HasKeys(M, WtKeys(M.settings)) THEN Raise(M, "KeyError")
    ELSE Log(SetT(M, n, wt_apply_filter(M.transects[n], WtKwargs(M.settings))),
             "wt_filters", n)

\* transect.edges.rec_edge_method, then transect.edges.vel_method.
StageEdgeMethods(M, n) ==
    IF ~Ok(M) THEN M
    ELSE IF ~HasKeys(M, {"edgeRecEdgeMethod"}) THEN Raise(M, "KeyError")
    ELSE LET M1 == Log([M EXCEPT !.transects[n].edges.rec_edge_method =
                                    M.settings["edgeRecEdgeMethod"]],
                       "rec_edge_method", n)
         IN IF ~HasKeys(M, {"edgeVelMethod"}) THEN Raise(M1, "KeyError")
            ELSE Log([M1 EXCEPT !.transects[n].edges.vel_method =
                                    M.settings["edgeVelMethod"]],
                     "vel_method", n)


\* A faulty loop body: the water-track filters run before the depths are
\* referenced and processed.
ApplyToTransect_WtBeforeDepths(M, n) ==
    StageEdgeMethods(
     StageProcessDepths(
      StageDepthReference(
       StageWtFilters(
        StageGpsInterpolation(
         StageVtgFilters(
          StageGgaFilters(
           StageBtInterpolation(
            StageBoatFilters(
             StageCompositeTracks(
              StageNavReference(
               StageQEnsembles(M, n), n), n), n), n), n), n), n), n), n), n), n)

\* The per-transect stages of apply_settings, in the order of the loop body.
ApplyToTransect(M, n) ==
    StageEdgeMethods(
     StageWtFilters(
      StageProcessDepths(
       StageDepthReference(
        StageGpsInterpolation(
         StageVtgFilters(
          StageGgaFilters(
           StageBtInterpolation(
            StageBoatFilters(
             StageCompositeTracks(
              StageNavReference(
               StageQEnsembles(M, n), n), n), n), n), n), n), n), n), n), n), n)

\* for transect in self.transects: the first loop of apply_settings.
RECURSIVE PerTransectLoop(_, _)
PerTransectLoop(M, n) ==
    IF n > Len(M.transects) THEN M
    ELSE PerTransectLoop(ApplyToTransect(M, n), n + 1)

\* A faulty compute_discharge: only the checked transects get an entry.
compute_discharge_CheckedOnly(M) ==
    IF ~Ok(M) THEN M ELSE
    LET Kept(n) == M.transects[n].checked
        idx == SelectSeq([n \in DOMAIN M.transects |-> n], Kept)
    IN Log([M EXCEPT !.discharge =
               [i \in DOMAIN idx |->
                   QComp_populate_data(M.transects[idx[i]], M.mb_tests)]],
           "compute_discharge", 0)

\* compute_discharge(self)
compute_discharge(M) ==
    IF ~Ok(M) THEN M ELSE
    Log([M EXCEPT !.discharge =
            [n \in DOMAIN M.transects |->
                QComp_populate_data(M.transects[n], M.mb_tests)]],
        "compute_discharge", 0)

\* self.extrap_fit.q_sensitivity = ExtrapQSensitivity(); populate_data(...)
ComputeQSensitivity(M) ==
    IF ~Ok(M) THEN M
    ELSE IF ~M.extrap_fit.exists THEN Raise(M, "AttributeError")
    ELSE Log([M EXCEPT !.extrap_fit.q_sensitivity =
                ExtrapQSensitivity_populate_data(M.transects, M.extrap_fit.sel_fit)],
             "q_sensitivity", 0)

\* An argument that was not passed (top=None, bot=None, exp=None).
NoneExp == ExpToken(None, None, {})

\* A faulty set_extrap_data loop: only the first transect is written.
SetExtrapAll_FirstOnly(M, top, bot, exp) ==
    [M EXCEPT !.transects =
        [n \in DOMAIN M.transects |->
            IF n = 1 THEN set_extrap_data(M.transects[n], top, bot, exp)
            ELSE M.transects[n]],
      !.trace = @ \o [n \in DOMAIN M.transects |-> <<"set_extrap_data", n>>]]

\* for transect in self.transects: transect.extrap.set_extrap_data(...)
SetExtrapAll(M, top, bot, exp) ==
    [M EXCEPT !.transects =
        [n \in DOMAIN M.transects |-> set_extrap_data(M.transects[n], top, bot, exp)],
      !.trace = @ \o [n \in DOMAIN M.transects |-> <<"set_extrap_data", n>>]]

\* A faulty change_extrapolation: the Automatic branch writes the extrapolation
\* to the transects before it refits, as the Manual branch does.
change_extrapolation_SetBeforeFit(M, method, top, bot, exp, extents, threshold, compute_q) ==
    IF ~Ok(M) THEN M
    ELSE IF ~M.extrap_fit.exists THEN Raise(M, "AttributeError")
    ELSE
    LET f0 == M.extrap_fit
        top1 == IF top = None THEN f0.sel_fit.top_method ELSE top
        bot1 == IF bot = None THEN f0.sel_fit.bot_method ELSE bot
        exp1 == IF exp = NoneExp THEN f0.sel_fit.exponent ELSE exp
        f1 == [f0 EXCEPT !.subsection = IF extents # None THEN extents ELSE @,
                         !.threshold = IF threshold # None THEN threshold ELSE @]
        fm == [f1 EXCEPT !.fit_method = IF method = "Manual" THEN "Manual"
                                        ELSE "Automatic"]
        Ms == SetExtrapAll([M EXCEPT !.extrap_fit = fm], top1, bot1, exp1)
        M1 == Log([Ms EXCEPT !.extrap_fit =
                      process_profiles(Ms.extrap_fit, Ms.transects)],
                  "process_profiles", 0)
    IN IF compute_q THEN compute_discharge(ComputeQSensitivity(M1)) ELSE M1

\* change_extrapolation(self, method, top, bot, exp, extents, threshold, compute_q)
change_extrapolation(M, method, top, bot, exp, extents, threshold, compute_q) ==
    IF ~Ok(M) THEN M
    ELSE IF ~M.extrap_fit.exists THEN Raise(M, "AttributeError")
    ELSE
    LET f0 == M.extrap_fit
        top1 == IF top = None THEN f0.sel_fit.top_method ELSE top
        bot1 == IF bot = None THEN f0.sel_fit.bot_method ELSE bot
        exp1 == IF exp = NoneExp THEN f0.sel_fit.exponent ELSE exp
        f1 == [f0 EXCEPT !.subsection = IF extents # None THEN extents ELSE @,
                         !.threshold = IF threshold # None THEN threshold ELSE @]
        M1 == IF method = "Manual"
              THEN LET Ms == SetExtrapAll([M EXCEPT !.extrap_fit =
                                               [f1 EXCEPT !.fit_method = "Manual"]],
                                          top1, bot1, exp1)
                   IN Log([Ms EXCEPT !.extrap_fit =
                              process_profiles(Ms.extrap_fit, Ms.transects)],
                          "process_profiles", 0)
              ELSE LET Mf == Log([M EXCEPT !.extrap_fit =
                                    process_profiles([f1 EXCEPT !.fit_method = "Automatic"],
                                                     M.transects)],
                                 "process_profiles", 0)
                   IN SetExtrapAll(Mf, Mf.extrap_fit.sel_fit.top_method,
                                   Mf.extrap_fit.sel_fit.bot_method,
                                   Mf.extrap_fit.sel_fit.exponent)
    IN IF compute_q THEN compute_discharge(ComputeQSensitivity(M1)) ELSE M1

\* apply_settings: the Manual branch completes a snapshot without 'extrapTop'
\* from the fit, writing into the caller's dict.
FillExtrapKeys(M) ==
    IF "extrapTop" \in DOMAIN M.settings THEN M
    ELSE [M EXCEPT !.settings =
            [ extrapTop |-> M.extrap_fit.sel_fit.top_method,
              extrapBot |-> M.extrap_fit.sel_fit.bot_method,
              extrapExp |-> M.extrap_fit.sel_fit.exponent ] @@ @]

\* apply_settings: "Recompute extrapolations".
ExtrapStep(M) ==
    IF ~Ok(M) THEN M
    ELSE IF ~M.extrap_fit.exists
    THEN LET M1 == Log([M EXCEPT !.extrap_fit = ComputeExtrap_populate_data(M.transects)],
                       "ComputeExtrap", 0)
         IN change_extrapolation(M1, M1.extrap_fit.fit_method, None, None, NoneExp,
                                 None, None, FALSE)
    ELSE IF M.extrap_fit.fit_method = "Automatic"
    THEN change_extrapolation(M, M.extrap_fit.fit_method, None, None, NoneExp,
                              None, None, FALSE)
    ELSE LET M1 == FillExtrapKeys(M)
         IN IF ~HasKeys(M1, {"extrapTop", "extrapBot", "extrapExp"})
            THEN Raise(M1, "KeyError")
            ELSE change_extrapolation(M1, M1.extrap_fit.fit_method,
                                      M1.settings["extrapTop"], M1.settings["extrapBot"],
                                      M1.settings["extrapExp"], None, None, FALSE)

\* for transect in self.transects: the water-track interpolation loop.
RECURSIVE WtInterpolationLoop(_, _)
WtInterpolationLoop(M, n) ==
    IF ~Ok(M) \/ n > Len(M.transects) THEN M
    ELSE IF ~HasKeys(M, {"WTEnsInterpolation", "WTCellInterpolation"})
         THEN Raise(M, "KeyError")
    ELSE WtInterpolationLoop(
            Log(SetT(M, n, wt_apply_interpolation(M.transects[n],
                                                  M.settings["WTEnsInterpolation"],
                                                  M.settings["WTCellInterpolation"])),
                "wt_interpolation", n),
            n + 1)

\* self.uncertainty = Uncertainty(); compute_uncertainty(self); self.qa = QAData(self)
UncertaintyAndQa(M) ==
    IF ~Ok(M) THEN M
    ELSE LET M1 == Log([M EXCEPT !.uncertainty = compute_uncertainty(M)],
                       "compute_uncertainty", 0)
         IN Log([M1 EXCEPT !.qa = QAData(M1)], "QAData", 0)

\* A faulty recompute chain: the uncertainty is estimated before the discharge
\* is recomputed.
Recompute_UncertaintyFirst(M) ==
    LET M1 == ComputeQSensitivity(M)
    IN IF ~Ok(M1) THEN M1 ELSE compute_discharge(UncertaintyAndQa(M1))

\* apply_settings: sensitivity, discharge, uncertainty and QA.
Recompute(M) ==
    LET M1 == ComputeQSensitivity(M)
    IN IF ~Ok(M1) THEN M1 ELSE UncertaintyAndQa(compute_discharge(M1))

\* A faulty apply_settings: the water-track interpolation loop runs before the
\* extrapolation step.
apply_settings_InterpolateFirst(M) ==
    Recompute(ExtrapStep(WtInterpolationLoop(PerTransectLoop(M, 1), 1)))

\* apply_settings(self, settings), settings being M.settings.
apply_settings(M) ==
    Recompute(WtInterpolationLoop(ExtrapStep(PerTransectLoop(M, 1)), 1))


\* ------------------------------------------------ the other operations
\* selected_transects_changed(self, selected_transects_idx)
selected_transects_changed(M, selected_transects_idx) ==
    LET M0 == [M EXCEPT !.transects =
                 [n \in DOMAIN M.transects |->
                    [M.transects[n] EXCEPT !.checked = (n \in selected_transects_idx)]]]
        M1 == IF ~M0.extrap_fit.exists \/ M0.extrap_fit.fit_method = "Automatic"
              THEN LET Mn == Log([M0 EXCEPT !.extrap_fit =
                                    ComputeExtrap_populate_data(M0.transects)],
                                 "ComputeExtrap", 0)
                   IN change_extrapolation(Mn, Mn.extrap_fit.fit_method,
                                           Mn.extrap_fit.sel_fit.top_method,
                                           Mn.extrap_fit.sel_fit.bot_method,
                                           Mn.extrap_fit.sel_fit.exponent,
                                           None, None, TRUE)
              ELSE M0
    IN Recompute(M1)

\* The transects an edit is applied to: all (transect_idx None, here 0) or one.
Targets(M, transect_idx) ==
    IF transect_idx = 0 THEN DOMAIN M.transects ELSE {transect_idx}

\* transect.change_sos / change_draft / change_mag_var / change_offset: the
\* sensor data of the targeted transects is replaced.
ChangeSensors(M, transect_idx, what) ==
    [M EXCEPT !.transects =
        [n \in DOMAIN M.transects |->
            IF n \in Targets(M, transect_idx)
            THEN [M.transects[n] EXCEPT !.sensors = what] ELSE M.transects[n]]]

\* The body shared by change_sos, change_draft and change_h_source:
\* s = current_settings(); edit the transects; apply_settings(s).
\* edited is self.transects after the edit.
EditThenApply(M, edited) ==
    LET Ms == current_settings(M)
    IN IF ~Ok(Ms) THEN Ms ELSE apply_settings([Ms EXCEPT !.transects = edited])

\* change_sos(self, transect_idx, parameter, ...)
change_sos(M, transect_idx) ==
    EditThenApply(M, ChangeSensors(M, transect_idx, "sos").transects)

\* change_draft(self, draft, transect_idx)
change_draft(M, transect_idx) ==
    EditThenApply(M, ChangeSensors(M, transect_idx, "draft").transects)

\* change_h_source(self, h_source, transect_idx)
change_h_source(M, h_source, transect_idx) ==
    EditThenApply(M, [n \in DOMAIN M.transects |->
                        IF n \in Targets(M, transect_idx)
                        THEN [M.transects[n] EXCEPT !.heading = h_source]
                        ELSE M.transects[n]])

\* change_magvar / change_h_offset: the while loop that looks for a transect
\* on the internal heading sensor. It runs while n <= n_transects, so with no
\* such transect it indexes self.transects[n_transects].
HeadingLoop(M) ==
    IF \E n \in DOMAIN M.transects : M.transects[n].heading = "internal"
    THEN "recompute" ELSE "IndexError"

\* The body shared by change_magvar and change_h_offset.
HeadingEdit(M, transect_idx, what) ==
    LET Ms == current_settings(M)
    IN IF ~Ok(Ms) THEN Ms
       ELSE IF HeadingLoop(Ms) = "IndexError" THEN Raise(Ms, "IndexError")
       ELSE apply_settings(ChangeSensors(Ms, transect_idx, what))

\* change_magvar(self, magvar, transect_idx)
change_magvar(M, transect_idx) == HeadingEdit(M, transect_idx, "magvar")

\* change_h_offset(self, h_offset, transect_idx)
change_h_offset(M, transect_idx) == HeadingEdit(M, transect_idx, "h_offset")

\* __init__: the processing of TRDI and SonTek data after the files are read.
InitProcess(M, proc_type) ==
    IF Len(M.transects) = 0 THEN M
    ELSE
    LET M1 == IF M.mb_tests.n > 0
              THEN Log([M EXCEPT !.mb_tests = auto_use_2_correct(M.mb_tests, None)],
                       "auto_use_2_correct", 0)
              ELSE M
        Mc == current_settings(M1)
        M2 == IF Ok(Mc) THEN [Mc EXCEPT !.initial_settings = Mc.settings] ELSE Mc
        M3 == IF ~Ok(M2) THEN M2
              ELSE IF proc_type = "QRev"
              THEN LET Md == qrev_default_settings(M2)
                   IN IF ~Ok(Md) THEN Md
                      ELSE apply_settings([Md EXCEPT !.settings =
                                              SetKey(@, "Processing", "QRev")])
              ELSE IF proc_type = "None"
              THEN LET Md == no_filter_interp_settings(M2)
                   IN IF ~Ok(Md) THEN Md
                      ELSE apply_settings([Md EXCEPT !.settings =
                                              SetKey(@, "Processing", "None")])
              ELSE [M2 EXCEPT !.discharge =
                      [n \in DOMAIN M2.transects |->
                          QComp_populate_data(M2.transects[n], M2.mb_tests)],
                    !.trace = Append(@, <<"compute_discharge", 0>>)]
    IN UncertaintyAndQa(M3)


\* ------------------------------------------------ UI/BeamDepths.py
\* The depth series of the plot: self.beam1 .. self.beam4, self.vb, self.ds,
\* in the order create and change handle them.
BeamSeries == <<"beam1", "beam2", "beam3", "beam4">>
Series == {"beam1", "beam2", "beam3", "beam4", "vb", "ds"}

\* A plot reference: None, or lines of the current axes that are visible or
\* hidden, or lines of axes that fig.clear() has since removed.
LineStates == {None, "visible", "hidden", "cleared"}

\* BeamDepths.__init__(canvas): no references, no checkboxes, no transect.
NoPlot ==
    [ lines |-> [s \in Series |-> None],
      checked |-> [s \in Series |-> FALSE],
      enabled |-> [s \in {"vb", "ds"} |-> FALSE],
      track |-> FALSE, vb |-> FALSE, ds |-> FALSE ]

\* for item in ref: item.set_visible(cb.checkState() == Checked)
SetVisible(line, on) ==
    IF line = "cleared" THEN line ELSE IF on THEN "visible" ELSE "hidden"

\* fig.clear(): the lines the references point to are no longer on the figure.
Cleared(lines) == [s \in Series |-> IF lines[s] = None THEN None ELSE "cleared"]

\* create(transect, units, cb_beam1, ..., cb_ds): the references afterwards.
\* The depth-sounder block is nested in the vertical-beam block, and nothing
\* is plotted when the boat track is all nan.
create(lines, checked, track, vb, ds) ==
    LET old == Cleared(lines)
        Plotted(s) == IF checked[s] THEN "visible" ELSE "hidden"
    IN [s \in Series |->
          IF ~track THEN old[s]
          ELSE IF s \in {"beam1", "beam2", "beam3", "beam4"} THEN Plotted(s)
          ELSE IF s = "vb" THEN (IF vb THEN Plotted(s) ELSE old[s])
          ELSE IF vb /\ ds THEN Plotted(s) ELSE old[s]]

\* change(): the series it iterates over, in order; the vertical beam and the
\* depth sounder only when their checkbox is enabled.
ChangeOrder(enabled) ==
    BeamSeries \o (IF enabled["vb"] THEN <<"vb">> ELSE << >>)
               \o (IF enabled["ds"] THEN <<"ds">> ELSE << >>)

\* change(): iterating over a reference that is None raises TypeError and
\* leaves the later series as they were.
RECURSIVE change(_, _, _)
change(lines, checked, order) ==
    IF order = << >> THEN [err |-> NoError, lines |-> lines]
    ELSE IF lines[Head(order)] = None THEN [err |-> "TypeError", lines |-> lines]
    ELSE change([lines EXCEPT ![Head(order)] = SetVisible(@, checked[Head(order)])],
                checked, Tail(order))

InitPlot ==
    /\ plot = NoPlot
    /\ transects = << >>
    /\ mb_tests = [n |-> 0, use_2_correct |-> "unset"]
    /\ extrap_fit = NoFit
    /\ processing = "QRev"
    /\ discharge = << >>
    /\ uncertainty = NoUncertainty
    /\ qa = [exists |-> FALSE, q |-> << >>]
    /\ initial_settings = EmptyDict
    /\ settings = EmptyDict
    /\ op = [name |-> "BeamDepths", err |-> NoError, again |-> FALSE]
    /\ trace = << >>
    /\ arg = EmptyDict
    /\ changes = 0
    /\ compass_eval = << >>

PlotFrame ==
    UNCHANGED <<transects, mb_tests, extrap_fit, processing, discharge,
                uncertainty, qa, initial_settings, settings, trace, arg,
                changes, compass_eval>>

\* beam_depths.create(transect, units, cb_beam1=..., ..., cb_ds=...) on a new
\* object, for a transect with or without a valid boat track, a vertical beam
\* and a depth sounder, the checkboxes as the window has them.
Create ==
    /\ op.name = "BeamDepths"
    /\ \E track \in BOOLEAN, vb \in BOOLEAN, ds \in BOOLEAN,
          checked \in [Series -> BOOLEAN], enabled \in [{"vb", "ds"} -> BOOLEAN] :
          plot' = [ lines |-> create(plot.lines, checked, track, vb, ds),
                    checked |-> checked, enabled |-> enabled,
                    track |-> track, vb |-> vb, ds |-> ds ]
    /\ op' = [name |-> "create", err |-> NoError, again |-> FALSE]
    /\ PlotFrame

\* beam_depths.create(...) again on the same object with the same checkboxes,
\* for another transect.
Recreate ==
    /\ op.name \in {"create", "change"}
    /\ \E track \in BOOLEAN, vb \in BOOLEAN, ds \in BOOLEAN :
          plot' = [ plot EXCEPT
                      !.lines = create(plot.lines, plot.checked, track, vb, ds),
                      !.track = track, !.vb = vb, !.ds = ds ]
    /\ op' = [name |-> "create", err |-> NoError, again |-> FALSE]
    /\ PlotFrame

\* The user clicks a checkbox; its stateChanged signal calls change().
Change ==
    /\ op.name \in {"create", "change"} /\ op.err = NoError
    /\ \E s \in Series :
          LET checked == [plot.checked EXCEPT ![s] = ~@]
              r == change(plot.lines, checked, ChangeOrder(plot.enabled))
          IN /\ plot' = [plot EXCEPT !.checked = checked, !.lines = r.lines]
             /\ op' = [name |-> "change", err |-> r.err, again |-> FALSE]
    /\ PlotFrame

NextPlot ==
    \/ Create
    \/ Recreate
    \/ Change

SpecPlot == InitPlot /\ [][NextPlot]_vars

\* ------------------------------------------------------------ behaviour
\* The files of a measurement, as load_trdi leaves them before __init__
\* processes them: which transects have GPS and of what kind, which are
\* checked, the reference of the manufacturer software, the heading source,
\* and whether moving-bed tests were found.
GpsLayouts ==
    { [n \in TIdx |-> "gga_vtg"],
      [n \in TIdx |-> "none"],
      [n \in TIdx |-> IF n = 1 THEN "none" ELSE "gga_vtg"],
      [n \in TIdx |-> IF n = 1 THEN "gga" ELSE "vtg"] }

\* The checked flags of the files that are loaded: all, none, the last only.
LoadChecked == { TIdx, {}, {NumTransects} }

\* The navigation reference of the file, its number of moving-bed tests and
\* the heading source selected in it (a GPS compass is an external heading).
LoadRefTests == { <<"BT", 1, "internal">>, <<"GGA", 0, "external">> }

\* checked_only is the `checked` argument of load_trdi: only the checked
\* transects of the file are allocated. It is drawn for the file in which no
\* transect is checked, which then yields no transect at all.
Init ==
    \E kinds \in GpsLayouts, chk \in LoadChecked, rt \in LoadRefTests,
       checked_only \in BOOLEAN :
      LET ref == rt[1]
          nmb == rt[2]
          hsrc == rt[3]
      IN
        /\ checked_only => chk = {}
        /\ transects =
              IF checked_only THEN << >>
              ELSE [n \in TIdx |->
                 LoadedTransect(kinds[n], n \in chk, LoadReference(ref, kinds), hsrc,
                                FALSE, IF n = 1 THEN "0.1667" ELSE "0.2")]
        /\ mb_tests = [n |-> nmb, use_2_correct |-> "unset"]
        /\ extrap_fit = NoFit
        /\ processing = "WR2"
        /\ discharge = <<>>
        /\ uncertainty = NoUncertainty
        /\ qa = [exists |-> FALSE, q |-> <<>>]
        /\ initial_settings = EmptyDict
        /\ settings = EmptyDict
        /\ op = [name |-> "load_trdi", err |-> NoError, again |-> FALSE]
        /\ trace = <<>>
        /\ arg = EmptyDict
        /\ changes = 0
        /\ compass_eval = << >>
        /\ plot = NoPlot

\* A Measurement object exists: __init__ has returned without an exception.
Alive == op.name # "load_trdi" /\ ~(op.name = "__init__" /\ op.err # NoError)

\* The operation named `name` returns, leaving the measurement as in M.
Commit(M, name, again) ==
    /\ transects' = M.transects
    /\ mb_tests' = M.mb_tests
    /\ extrap_fit' = M.extrap_fit
    /\ processing' = M.processing
    /\ discharge' = M.discharge
    /\ uncertainty' = M.uncertainty
    /\ qa' = M.qa
    /\ initial_settings' = M.initial_settings
    /\ trace' = M.trace
    /\ op' = [name |-> name, err |-> M.err, again |-> again]
    /\ UNCHANGED <<compass_eval, plot>>

\* Measurement(in_file, source, proc_type)
Load ==
    /\ op.name = "load_trdi"
    /\ \E proc_type \in {"QRev", "None", "Original"} :
          Commit(InitProcess(Mach(EmptyDict), proc_type), "__init__", FALSE)
    /\ UNCHANGED <<settings, arg, changes>>

\* The caller takes a snapshot: s = meas.current_settings()
Capture ==
    /\ Alive
    /\ LET M == current_settings(Mach(EmptyDict))
       IN /\ Commit(M, "current_settings", FALSE)
          /\ settings' = M.settings
    /\ arg' = EmptyDict
    /\ UNCHANGED changes

\* The caller takes the best-practice bundle: s = meas.qrev_default_settings()
Default ==
    /\ Alive
    /\ LET M == qrev_default_settings(Mach(EmptyDict))
       IN /\ Commit(M, "qrev_default_settings", FALSE)
          /\ settings' = M.settings
    /\ arg' = EmptyDict
    /\ UNCHANGED changes

\* The caller asks for the no-filter bundle: s = meas.no_filter_interp_settings()
NoFilter ==
    /\ Alive
    /\ LET M == no_filter_interp_settings(Mach(EmptyDict))
       IN /\ Commit(M, "no_filter_interp_settings", FALSE)
          /\ settings' = M.settings
    /\ arg' = EmptyDict
    /\ UNCHANGED changes

\* The edits a caller makes to a snapshot before applying it.
OtherRef(ref) == IF ref = "bt_vel" THEN "gga_vel" ELSE "bt_vel"
EditedSnapshots(s) ==
    { SetKey(s, "NavRef", OtherRef(s["NavRef"])),
      SetKey(SetKey(s, "WTEnsInterpolation", "Linear"), "WTCellInterpolation", "Linear"),
      SetKey(SetKey(SetKey(s, "BTwFilter", "Manual"), "BTwFilterThreshold", "0.3"),
             "BTbeamFilter", "3"),
      SetKey(s, "Processing", "QRev"),
      DelKey(s, "edgeVelMethod") }

\* meas.apply_settings(s) on the snapshot the caller holds.
Apply ==
    /\ Alive
    /\ DOMAIN settings # {}
    /\ LET M == apply_settings(Mach(settings))
       IN /\ Commit(M, "apply_settings", op.name = "apply_settings" /\ op.err = NoError)
          /\ settings' = M.settings
    /\ arg' = settings
    /\ UNCHANGED changes

\* The caller edits the snapshot it holds, then meas.apply_settings(s).
EditAndApply ==
    /\ Alive
    /\ "NavRef" \in DOMAIN settings
    /\ changes < MaxChanges
    /\ \E s \in EditedSnapshots(settings) :
          LET M == apply_settings(Mach(s))
          IN /\ Commit(M, "apply_settings", FALSE)
             /\ settings' = M.settings
             /\ arg' = s
    /\ changes' = changes + 1

\* meas.change_extrapolation(method, top, bot, exp, threshold=..., compute_q=...)
ChangeExtrapolation ==
    /\ Alive /\ changes < MaxChanges
    /\ \E method \in {"Automatic", "Manual"}, threshold \in {None, "10"},
          compute_q \in BOOLEAN :
          /\ (threshold # None => method = "Automatic" /\ compute_q)
          /\ arg' = SetKey(EmptyDict, "compute_q",
                           IF compute_q THEN "True" ELSE "False")
          /\ Commit(IF method = "Manual"
                    THEN change_extrapolation(Mach(EmptyDict), method, "Constant",
                                              "No Slip", ExpToken("user", "0.25", {}),
                                              None, threshold, compute_q)
                    ELSE change_extrapolation(Mach(EmptyDict), method, None, None,
                                              NoneExp, None, threshold, compute_q),
                    "change_extrapolation", FALSE)
    /\ changes' = changes + 1
    /\ settings' = EmptyDict

\* meas.selected_transects_changed(selected_transects_idx)
SelectedTransectsChanged ==
    /\ Alive /\ changes < MaxChanges
    /\ \E sel \in SUBSET TIdx :
          Commit(selected_transects_changed(Mach(EmptyDict), sel),
                 "selected_transects_changed", FALSE)
    /\ changes' = changes + 1
    /\ settings' = EmptyDict
    /\ arg' = EmptyDict

\* meas.change_sos(transect_idx, ...)
ChangeSos ==
    /\ Alive /\ changes < MaxChanges
    /\ \E idx \in {0} \cup TIdx :
          Commit(change_sos(Mach(EmptyDict), idx), "change_sos", FALSE)
    /\ changes' = changes + 1
    /\ settings' = EmptyDict
    /\ arg' = EmptyDict

\* meas.change_draft(draft, transect_idx)
ChangeDraft ==
    /\ Alive /\ changes < MaxChanges
    /\ \E idx \in {0} \cup TIdx :
          Commit(change_draft(Mach(EmptyDict), idx), "change_draft", FALSE)
    /\ changes' = changes + 1
    /\ settings' = EmptyDict
    /\ arg' = EmptyDict

\* meas.change_h_source(h_source, transect_idx)
ChangeHSource ==
    /\ Alive /\ changes < MaxChanges
    /\ \E idx \in {0} \cup TIdx, h \in {"internal", "external"} :
          Commit(change_h_source(Mach(EmptyDict), h, idx), "change_h_source", FALSE)
    /\ changes' = changes + 1
    /\ settings' = EmptyDict
    /\ arg' = EmptyDict

\* meas.change_magvar(magvar, transect_idx)
ChangeMagvar ==
    /\ Alive /\ changes < MaxChanges
    /\ \E idx \in {0} \cup TIdx :
          Commit(change_magvar(Mach(EmptyDict), idx), "change_magvar", FALSE)
    /\ changes' = changes + 1
    /\ settings' = EmptyDict
    /\ arg' = EmptyDict

\* meas.change_h_offset(h_offset, transect_idx)
ChangeHOffset ==
    /\ Alive /\ changes < MaxChanges
    /\ \E idx \in {0} \cup TIdx :
          Commit(change_h_offset(Mach(EmptyDict), idx), "change_h_offset", FALSE)
    /\ changes' = changes + 1
    /\ settings' = EmptyDict
    /\ arg' = EmptyDict

\* The reference round trip of a caller that holds the snapshot s it has just
\* applied: apply_settings(s with NavRef changed), then apply_settings(s).
nav_round_trip(M, s) ==
    LET M1 == apply_settings([M EXCEPT !.settings =
                                 SetKey(s, "NavRef", OtherRef(s["NavRef"]))])
    IN IF ~Ok(M1) THEN M1
       ELSE apply_settings([M1 EXCEPT !.settings = s, !.trace = << >>])

\* The other reference is available: every transect has the velocity source.
OtherRefAvailable(ts, ref) ==
    OtherRef(ref) = "gga_vel" => \A n \in DOMAIN ts : ts[n].gga

\* meas.apply_settings(s2); meas.apply_settings(s) after a successful
\* meas.apply_settings(s).
NavRoundTrip ==
    /\ Alive
    /\ op.name = "apply_settings" /\ op.err = NoError
    /\ "NavRef" \in DOMAIN settings
    /\ OtherRefAvailable(transects, settings["NavRef"])
    /\ changes < MaxChanges
    /\ LET M == nav_round_trip(Mach(settings), settings)
       IN /\ Commit(M, "nav_round_trip", FALSE)
          /\ settings' = M.settings
    /\ arg' = settings
    /\ changes' = changes + 1

\* meas.selected_transects_changed(selected_transects_idx) called right after
\* a change_extrapolation call has returned.
SelectAfterFit ==
    /\ Alive
    /\ op.name = "change_extrapolation" /\ op.err = NoError
    /\ \E sel \in SUBSET TIdx :
          Commit(selected_transects_changed(Mach(EmptyDict), sel),
                 "selected_transects_changed", FALSE)
    /\ settings' = EmptyDict
    /\ arg' = EmptyDict
    /\ UNCHANGED changes

\* The settings life cycle: load, take a snapshot, apply it, change the fit.
Next ==
    \/ Load
    \/ Capture
    \/ Default
    \/ NoFilter
    \/ Apply
    \/ EditAndApply
    \/ ChangeExtrapolation
    \/ NavRoundTrip

Spec == Init /\ [][Next]_vars

\* The life of the extrapolation fit: changes of the fit, each followed by
\* snapshots, their application or a change of the selected transects.
NextFit ==
    \/ Load
    \/ Capture
    \/ Apply
    \/ ChangeExtrapolation
    \/ SelectAfterFit

SpecFit == Init /\ [][NextFit]_vars

\* The caller sets the extrapolation entries of the snapshot it has just
\* taken, then meas.apply_settings(s).
EditExtrapAndApply ==
    /\ Alive
    /\ op.name = "current_settings" /\ op.err = NoError
    /\ LET s == SetKey(SetKey(SetKey(settings, "extrapTop", "Power"),
                              "extrapBot", "Power"),
                       "extrapExp", ExpToken("user", "0.1667", {}))
           M == apply_settings(Mach(s))
       IN /\ Commit(M, "apply_settings", FALSE)
          /\ settings' = M.settings
          /\ arg' = s
    /\ UNCHANGED changes

\* The extrapolation life cycle: a fit is set by change_extrapolation and a
\* snapshot, as taken or with its extrapolation entries edited, is applied.
NextExtrap ==
    \/ Load
    \/ Capture
    \/ Apply
    \/ ChangeExtrapolation
    \/ EditExtrapAndApply

SpecExtrap == Init /\ [][NextExtrap]_vars

\* The per-transect edits and the selection of transects, with the snapshots
\* they are followed by.
NextOps ==
    \/ Load
    \/ Capture
    \/ Apply
    \/ SelectedTransectsChanged
    \/ ChangeSos
    \/ ChangeDraft
    \/ ChangeHSource
    \/ ChangeMagvar
    \/ ChangeHOffset

SpecOps == Init /\ [][NextOps]_vars

\* ------------------------------------------------------- report export
\* What xml_output reads of a transect for the textual summary fields: the
\* checked flag, the type and custom coefficient of each edge, and the
\* selected temperature source, salinity and speed-of-sound source.
\* Coefficients are in ten-thousandths, salinities in hundredths of a ppt.
XmlEdges ==
    { [left_type |-> "Triangular", left_cust |-> 0,
       right_type |-> "Triangular", right_cust |-> 0],
      [left_type |-> "Rectangular", left_cust |-> 0,
       right_type |-> "Triangular", right_cust |-> 0],
      [left_type |-> "Custom", left_cust |-> 4000,
       right_type |-> "User Q", right_cust |-> 0],
      [left_type |-> "Custom", left_cust |-> 6000,
       right_type |-> "Custom", right_cust |-> 4000],
      [left_type |-> "User Q", left_cust |-> 0,
       right_type |-> "Rectangular", right_cust |-> 0] }

XmlSensors ==
    { [temperature |-> "internal", salinity |-> 0, speed_of_sound |-> "internal"],
      [temperature |-> "user", salinity |-> 3504, speed_of_sound |-> "user"],
      [temperature |-> "internal", salinity |-> 0, speed_of_sound |-> "computed"] }

XmlTransect(chk, e, x) ==
    [ checked |-> chk,
      left_type |-> e.left_type, left_cust |-> e.left_cust,
      right_type |-> e.right_type, right_cust |-> e.right_cust,
      temperature |-> x.temperature, salinity |-> x.salinity,
      speed_of_sound |-> x.speed_of_sound ]

\* QComp.edge_coef(edge_loc, transect): the coefficient of an edge.
edge_coef(type, cust) ==
    IF type = "Triangular" THEN 3535
    ELSE IF type = "Rectangular" THEN 9100
    ELSE IF type = "Custom" THEN cust
    ELSE 0

\* '{:.4f}'.format(c) and '{:2.1f}'.format(v) for the values above.
Pad4(n) ==
    (IF n < 10 THEN "000" ELSE IF n < 100 THEN "00" ELSE IF n < 1000 THEN "0" ELSE "")
       \o ToString(n)
Format4f(c) == ToString(c \div 10000) \o "." \o Pad4(c % 10000)
Format1f(v) == ToString((v + 5) \div 100) \o "." \o ToString(((v + 5) \div 10) % 10)

\* The values xml_output collects over the checked transects, in order.
CheckedList(ts, f) ==
    LET IsChecked(t) == t.checked
        sel == SelectSeq(ts, IsChecked)
    IN [i \in DOMAIN sel |-> sel[i][f]]
Values(l) == { l[i] : i \in DOMAIN l }

\* 'Varies' when the set of collected values has more than one element,
\* else the first collected value; IndexError when nothing was collected.
Summary(l) ==
    IF Cardinality(Values(l)) > 1 THEN "Varies"
    ELSE IF l = << >> THEN "IndexError" ELSE l[1]

\* LeftEdgeCoefficient / RightEdgeCoefficient, given the type field written
\* just before.
EdgeCoefficient(ts, typ, ftype, fcust) ==
    IF typ \in {"User Q", "Varies"} THEN "N/A"
    ELSE LET types == CheckedList(ts, ftype)
             custs == CheckedList(ts, fcust)
             coef == [i \in DOMAIN types |-> edge_coef(types[i], custs[i])]
         IN IF Cardinality(Values(coef)) > 1 THEN "Varies"
            ELSE IF coef = << >> THEN "IndexError" ELSE Format4f(coef[1])

\* xml_output: the textual summary fields of the Edge and Sensor nodes.
xml_output(ts) ==
    IF CheckedList(ts, "left_type") = << >>
    THEN [err |-> "IndexError", fields |-> EmptyDict]
    ELSE
    LET lt == Summary(CheckedList(ts, "left_type"))
        rt == Summary(CheckedList(ts, "right_type"))
        sal == CheckedList(ts, "salinity")
        sos == Summary(CheckedList(ts, "speed_of_sound"))
    IN [ err |-> NoError,
         fields |->
           [ LeftType |-> lt,
             LeftEdgeCoefficient |-> EdgeCoefficient(ts, lt, "left_type", "left_cust"),
             RightType |-> rt,
             RightEdgeCoefficient |-> EdgeCoefficient(ts, rt, "right_type", "right_cust"),
             TemperatureSource |-> Summary(CheckedList(ts, "temperature")),
             Salinity |-> IF Cardinality(Values(sal)) > 1 THEN "Varies"
                          ELSE Format1f(sal[1]),
             SpeedofSound |-> IF sos = "internal" THEN "ADCP" ELSE sos ] ]

\* A processed measurement about to be exported.
InitXml ==
    /\ transects \in [TIdx -> { XmlTransect(chk, e, x) :
                                   chk \in BOOLEAN, e \in XmlEdges, x \in XmlSensors }]
    /\ mb_tests = [n |-> 0, use_2_correct |-> "unset"]
    /\ extrap_fit = NoFit
    /\ processing = "QRev"
    /\ discharge = << >>
    /\ uncertainty = NoUncertainty
    /\ qa = [exists |-> FALSE, q |-> << >>]
    /\ initial_settings = EmptyDict
    /\ settings = EmptyDict
    /\ op = [name |-> "__init__", err |-> NoError, again |-> FALSE]
    /\ trace = << >>
    /\ arg = EmptyDict
    /\ changes = 0
    /\ compass_eval = << >>
    /\ plot = NoPlot

\* meas.xml_output(version, file_name): arg holds the fields written.
XmlOutput ==
    /\ op.name = "__init__"
    /\ LET r == xml_output(transects)
       IN /\ op' = [name |-> "xml_output", err |-> r.err, again |-> FALSE]
          /\ arg' = r.fields
    /\ UNCHANGED <<transects, mb_tests, extrap_fit, processing, discharge,
                   uncertainty, qa, initial_settings, settings, trace, changes,
                   compass_eval, plot>>

NextXml ==
    \/ XmlOutput

SpecXml == InitXml /\ [][NextXml]_vars

\* ------------------------------------------- report export: the QA node
\* Longest text after an error pattern in a compass evaluation.
MaxAfter == 3

\* The characters of an evaluation text by what xml_output does with them:
\* a digit, a period, anything else.
EvalChars == {"1", ".", "x"}
TypicalPattern == "Typical Heading Error: <"
TotalPattern == ">>> Total error:"

\* The texts of a compass evaluation: which error pattern find() locates
\* first (None when neither is in the text) and the text that follows it.
AfterTexts == UNION { [1..k -> EvalChars] : k \in 0..MaxAfter }
EvalTexts ==
    { [pattern |-> p, after |-> a] :
         p \in {None, TypicalPattern, TotalPattern}, a \in AfterTexts }

\* An evaluation whose data is None: find() on it is an AttributeError.
NoText == [pattern |-> "AttributeError", after |-> << >>]

\* data[idx_start:idx_start + 10] where idx_start = idx + offset and the
\* pattern at idx has length patlen.
Window(after, offset, patlen) ==
    SubSeq(after, offset - patlen + 1,
           IF Len(after) < offset - patlen + 10 THEN Len(after)
           ELSE offset - patlen + 10)

\* ''.join([n for n in comp_error if n.isdigit() or n == '.'])
KeepDigitsAndDots(w) ==
    LET Keep(c) == c \in {"1", "."}
    IN SelectSeq(w, Keep)

\* xml_output: the CompassCalibrationResult node.
CompassCalibrationResult(ce) ==
    IF ce = << >> THEN [text |-> "No", error |-> << >>]
    ELSE LET data == ce[Len(ce)]
         IN IF data = NoText THEN [text |-> "Yes", error |-> << >>]
            ELSE LET comp_error ==
                       IF data.pattern = TypicalPattern
                       THEN KeepDigitsAndDots(Window(data.after, 24, 24))
                       ELSE IF data.pattern = TotalPattern
                       THEN KeepDigitsAndDots(Window(data.after, 17, 16))
                       ELSE << >>
                 IN IF comp_error = << >> THEN [text |-> "Yes", error |-> << >>]
                    ELSE [text |-> "Max", error |-> comp_error]

\* A measurement about to be exported, with its compass evaluations.
InitCompass ==
    /\ compass_eval \in {<< >>} \cup { <<d>> : d \in EvalTexts }
                        \cup { <<d, NoText>> : d \in EvalTexts }
    /\ transects = << >>
    /\ mb_tests = [n |-> 0, use_2_correct |-> "unset"]
    /\ extrap_fit = NoFit
    /\ processing = "QRev"
    /\ discharge = << >>
    /\ uncertainty = NoUncertainty
    /\ qa = [exists |-> FALSE, q |-> << >>]
    /\ initial_settings = EmptyDict
    /\ settings = EmptyDict
    /\ op = [name |-> "__init__", err |-> NoError, again |-> FALSE]
    /\ trace = << >>
    /\ arg = EmptyDict
    /\ changes = 0
    /\ plot = NoPlot

\* meas.xml_output(version, file_name) up to the CompassCalibrationResult
\* node: arg holds the node written.
XmlCompass ==
    /\ op.name = "__init__"
    /\ op' = [name |-> "xml_output", err |-> NoError, again |-> FALSE]
    /\ arg' = CompassCalibrationResult(compass_eval)
    /\ UNCHANGED <<transects, mb_tests, extrap_fit, processing, discharge,
                   uncertainty, qa, initial_settings, settings, trace, changes,
                   compass_eval, plot>>

NextCompass ==
    \/ XmlCompass

SpecCompass == InitCompass /\ [][NextCompass]_vars

\* ---------------------------- report export: the moving-bed test nodes
MaxTests == 2
\* What xml_output reads of a moving-bed test.
MbTests ==
    { [type |-> t, selected |-> s, moving_bed |-> m] :
         t \in {"Loop", "Stationary"}, s \in BOOLEAN, m \in {"Yes", "No", "Unknown"} }
MbTestLists == UNION { [1..k -> MbTests] : k \in 0..MaxTests }

\* selected_idx = [i for (i, val) in enumerate(self.mb_tests) if val.selected is True]
selected_idx(tests) ==
    LET Sel(i) == tests[i].selected
    IN SelectSeq([i \in DOMAIN tests |-> i], Sel)

\* The MovingBedTestType and MovingBedTestResult nodes; with no selected test
\* selected_idx[-1] is an index into an empty list.
MovingBedNodes(tests) ==
    LET idx == selected_idx(tests)
        sel == [i \in DOMAIN idx |-> tests[idx[i]].moving_bed]
    IN IF tests = << >> THEN [err |-> NoError, type |-> "None", result |-> "-"]
       ELSE IF Len(idx) >= 1
       THEN [ err |-> NoError,
              type |-> tests[idx[1]].type,
              result |-> IF \E i \in DOMAIN sel : sel[i] = "Yes" THEN "Yes"
                         ELSE IF \E i \in DOMAIN sel : sel[i] = "No" THEN "No"
                         ELSE "Unknown" ]
       ELSE [err |-> "IndexError", type |-> "-", result |-> "-"]

InitMb ==
    /\ \E tests \in MbTestLists :
          mb_tests = [n |-> Len(tests), use_2_correct |-> "unset", tests |-> tests]
    /\ transects = << >>
    /\ extrap_fit = NoFit
    /\ processing = "QRev"
    /\ discharge = << >>
    /\ uncertainty = NoUncertainty
    /\ qa = [exists |-> FALSE, q |-> << >>]
    /\ initial_settings = EmptyDict
    /\ settings = EmptyDict
    /\ op = [name |-> "__init__", err |-> NoError, again |-> FALSE]
    /\ trace = << >>
    /\ arg = EmptyDict
    /\ changes = 0
    /\ compass_eval = << >>
    /\ plot = NoPlot

\* meas.xml_output(version, file_name) at the moving-bed nodes: arg holds the
\* nodes written.
XmlMovingBed ==
    /\ op.name = "__init__"
    /\ LET r == MovingBedNodes(mb_tests.tests)
       IN /\ op' = [name |-> "xml_output", err |-> r.err, again |-> FALSE]
          /\ arg' = [type |-> r.type, result |-> r.result]
    /\ UNCHANGED <<transects, mb_tests, extrap_fit, processing, discharge,
                   uncertainty, qa, initial_settings, settings, trace, changes,
                   compass_eval, plot>>

NextMb ==
    \/ XmlMovingBed

SpecMb == InitMb /\ [][NextMb]_vars

\* ------------------------------------ aggregates over checked transects
\* A float: nan or a value. A mean is kept as the sum and the count it is
\* the quotient of.
NaNum == [nan |-> TRUE, v |-> 0]
Num(v) == [nan |-> FALSE, v |-> v]
NaMean == [nan |-> TRUE, sum |-> 0, n |-> 0]

RECURSIVE SumSeq(_)
SumSeq(l) == IF l = << >> THEN 0 ELSE Head(l).v + SumSeq(Tail(l))

RECURSIVE MaxSeq(_)
MaxSeq(l) ==
    IF Len(l) = 1 THEN l[1].v
    ELSE LET m == MaxSeq(Tail(l)) IN IF Head(l).v > m THEN Head(l).v ELSE m

\* The values of l that are not nan.
NotNan(l) ==
    LET Valid(x) == ~x.nan
    IN SelectSeq(l, Valid)

\* np.mean(l): nan for an empty list (with a warning) or when a value is nan.
np_mean(l) ==
    IF l = << >> \/ NotNan(l) # l THEN NaMean
    ELSE [nan |-> FALSE, sum |-> SumSeq(l), n |-> Len(l)]

\* np.nanmean(l): the mean of the values that are not nan; nan when none.
np_nanmean(l) ==
    IF NotNan(l) = << >> THEN NaMean
    ELSE [nan |-> FALSE, sum |-> SumSeq(NotNan(l)), n |-> Len(NotNan(l))]

\* np.nanmax(l) of a non-empty l: nan when every value is nan.
np_nanmax(l) ==
    IF NotNan(l) = << >> THEN NaNum ELSE Num(MaxSeq(NotNan(l)))

\* The indices n of the transects for which keep[n] holds, in order.
IdxWhere(keep) ==
    LET Kept(n) == keep[n]
    IN SelectSeq([n \in 1..Len(keep) |-> n], Kept)

\* mean_discharges: total_mean, the np.mean of the totals of the checked
\* transects.
total_mean(ts, q) ==
    LET idx == IdxWhere([n \in DOMAIN ts |-> ts[n].checked])
    IN np_mean([i \in DOMAIN idx |-> q[idx[i]].total])

\* compute_measurement_properties: the per-transect width and maximum depth
\* (nan when the transect has no boat track) and the aggregate row over
\* checked_idx, the checked transects that have a boat track.
trans_prop(ts) ==
    LET width == [n \in DOMAIN ts |-> IF ts[n].track THEN ts[n].width ELSE NaNum]
        max_depth == [n \in DOMAIN ts |->
                         IF ts[n].track THEN np_nanmax(<<ts[n].depth>>) ELSE NaNum]
        idx == IdxWhere([n \in DOMAIN ts |-> ts[n].track /\ ts[n].checked])
    IN IF Len(idx) > 0
       THEN [ width |-> np_nanmean([i \in DOMAIN idx |-> width[idx[i]]]),
              max_depth |-> np_nanmax([i \in DOMAIN idx |-> max_depth[idx[i]]]) ]
       ELSE [ width |-> NaMean, max_depth |-> NaNum ]

\* What the aggregates read of a transect: checked, whether it has a boat
\* track, its width and a processed depth.
AggTransects ==
    { [checked |-> c, track |-> t, width |-> Num(w), depth |-> d] :
         c \in BOOLEAN, t \in BOOLEAN, w \in {10}, d \in {NaNum, Num(2), Num(4)} }
\* The total of a transect's discharge.
AggTotals == { [total |-> x] : x \in {NaNum, Num(1), Num(3)} }

InitAgg ==
    /\ transects \in [TIdx -> AggTransects]
    /\ discharge \in [TIdx -> AggTotals]
    /\ mb_tests = [n |-> 0, use_2_correct |-> "unset"]
    /\ extrap_fit = NoFit
    /\ processing = "QRev"
    /\ uncertainty = NoUncertainty
    /\ qa = [exists |-> FALSE, q |-> << >>]
    /\ initial_settings = EmptyDict
    /\ settings = EmptyDict
    /\ op = [name |-> "__init__", err |-> NoError, again |-> FALSE]
    /\ trace = << >>
    /\ arg = EmptyDict
    /\ changes = 0
    /\ compass_eval = << >>
    /\ plot = NoPlot

\* Measurement.mean_discharges(meas) and
\* Measurement.compute_measurement_properties(meas): arg holds the results.
Aggregates ==
    /\ op.name = "__init__"
    /\ op' = [name |-> "aggregates", err |-> NoError, again |-> FALSE]
    /\ arg' = [ total_mean |-> total_mean(transects, discharge),
                width |-> trans_prop(transects).width,
                max_depth |-> trans_prop(transects).max_depth ]
    /\ UNCHANGED <<transects, mb_tests, extrap_fit, processing, discharge,
                   uncertainty, qa, initial_settings, settings, trace, changes,
                   compass_eval, plot>>

NextAgg ==
    \/ Aggregates

SpecAgg == InitAgg /\ [][NextAgg]_vars

\* ------------------------------------------------------------ properties
\* The calls of the per-transect loop body, in the order the specification
\* gives them.
StageOrder ==
    << "change_q_ensembles", "change_nav_reference", "auto_use_2_correct",
       "composite_tracks", "boat_filters", "bt_interpolation", "gga_filters",
       "vtg_filters", "gps_interpolation", "set_depth_reference", "process_depths",
       "wt_filters", "rec_edge_method", "vel_method" >>
StageNames == { StageOrder[i] : i \in DOMAIN StageOrder }
StageRank(name) == CHOOSE i \in DOMAIN StageOrder : StageOrder[i] = name
\* The stages every transect goes through, whatever it carries.
AlwaysStages ==
    { "boat_filters", "bt_interpolation", "set_depth_reference", "process_depths",
      "wt_filters", "rec_edge_method", "vel_method" }
\* The calls of the extrapolation step.
ExtrapEvents == { "ComputeExtrap", "process_profiles", "set_extrap_data" }
\* The positions of the trace at which `name` was called (for transect n).
At(name) == { i \in DOMAIN trace : trace[i][1] = name }
AtT(name, n) == { i \in DOMAIN trace : trace[i] = <<name, n>> }
\* apply_settings was the last operation, called by the caller.
Applied == op.name = "apply_settings"
AppliedOk == Applied /\ op.err = NoError

\* C1: in one call of apply_settings the per-transect stages of every transect
\* run in the fixed order (each at most once, and a transect's stages before
\* those of the next transect); a call that completes has run every
\* unconditional stage on every transect, the discharge-method stage exactly
\* when the snapshot has 'Processing', and the GPS stages exactly on the
\* transects that have GPS.
C1_StagesInOrder ==
    Applied =>
      /\ \A i, j \in DOMAIN trace :
            (i < j /\ trace[i][1] \in StageNames /\ trace[j][1] \in StageNames) =>
               /\ trace[i][2] <= trace[j][2]
               /\ trace[i][2] = trace[j][2] =>
                     StageRank(trace[i][1]) < StageRank(trace[j][1])
      /\ op.err = NoError =>
            \A n \in DOMAIN transects :
               /\ \A name \in AlwaysStages : AtT(name, n) # {}
               /\ (AtT("change_q_ensembles", n) # {}) <=> ("Processing" \in DOMAIN arg)
               /\ (AtT("gps_interpolation", n) # {}) <=> transects[n].gps
               /\ (AtT("gga_filters", n) # {}) <=> (transects[n].gps /\ transects[n].gga)
               /\ (AtT("vtg_filters", n) # {}) <=> (transects[n].gps /\ transects[n].vtg)

\* C1 witness: a completed call on a snapshot with 'Processing' that ran the
\* GGA and VTG filters and the GPS interpolation of a transect with GPS.
C1_Witness ==
    /\ AppliedOk
    /\ "Processing" \in DOMAIN arg
    /\ \E n \in DOMAIN transects :
          /\ AtT("change_q_ensembles", n) # {}
          /\ AtT("gga_filters", n) # {}
          /\ AtT("vtg_filters", n) # {}
          /\ AtT("gps_interpolation", n) # {}
          /\ AtT("vel_method", n) # {}

\* C2: in every call of apply_settings every call of the extrapolation step
\* (creating the fit, fitting, writing the result to the transects) comes
\* before the water-track interpolation of any transect, and no water-track
\* interpolation runs without the fit having been processed in that call.
C2_ExtrapBeforeWtInterpolation ==
    Applied =>
      /\ \A i \in DOMAIN trace : \A j \in At("wt_interpolation") :
            trace[i][1] \in ExtrapEvents => i < j
      /\ At("wt_interpolation") # {} => At("process_profiles") # {}

\* C2 witness: a call that refitted the extrapolation and then interpolated
\* the water track of every transect.
C2_Witness ==
    /\ AppliedOk
    /\ At("process_profiles") # {}
    /\ \A n \in DOMAIN transects : AtT("wt_interpolation", n) # {}

\* C3: a call of apply_settings that completes has computed, each exactly
\* once and in this order, the extrapolation sensitivity, the discharge of
\* every transect and the uncertainty, all after the last per-transect stage
\* and water-track interpolation; the discharge list holds one result per
\* transect, computed from the transect as the call left it, and the
\* uncertainty is the one of that discharge list.
C3_RecomputeChainLast ==
    AppliedOk =>
      /\ \A name \in {"q_sensitivity", "compute_discharge", "compute_uncertainty"} :
            Cardinality(At(name)) = 1
      /\ \A i \in At("q_sensitivity"), j \in At("compute_discharge"),
            k \in At("compute_uncertainty") :
            /\ i < j /\ j < k
            /\ \A h \in DOMAIN trace :
                  trace[h][1] \in StageNames \cup ExtrapEvents \cup {"wt_interpolation"}
                     => h < i
      /\ discharge = [n \in DOMAIN transects |->
                         QComp_populate_data(transects[n], mb_tests)]
      /\ uncertainty.q = discharge
      /\ extrap_fit.q_sensitivity =
            ExtrapQSensitivity_populate_data(transects, extrap_fit.sel_fit)

\* C3 witness: a completed call whose discharge list has an entry for every
\* transect and whose uncertainty was estimated.
C3_Witness ==
    /\ AppliedOk
    /\ At("compute_uncertainty") # {}
    /\ Len(discharge) = NumTransects

C5_RoundTrip ==
    [][ (op.name = "current_settings" /\ op.err = NoError
         /\ op'.name = "apply_settings" /\ arg' = settings) =>
           UNCHANGED <<transects, discharge>> ]_vars

\* The operations that change the state of the measurement.
StateChangingOps ==
    { "apply_settings", "change_sos", "change_draft", "change_h_source",
      "change_extrapolation", "selected_transects_changed", "change_magvar",
      "change_h_offset" }

\* C6 (as claimed): when a state-changing operation has returned, the
\* uncertainty is the one estimated from the current discharge list.
C6_UncertaintyFresh ==
    (op.name \in StateChangingOps /\ op.err = NoError) =>
        (uncertainty.exists /\ uncertainty.q = discharge)

\* C7 (as claimed): a call of apply_settings that ends in an error has changed
\* no transect, moving-bed selection, fit, discharge or uncertainty.
C7_RejectedUnchanged ==
    [][ (op'.name = "apply_settings" /\ op'.err # NoError) =>
           UNCHANGED <<transects, mb_tests, extrap_fit, discharge, uncertainty>> ]_vars

\* The keys apply_settings reads from snapshot s for transect t.
KeysRead(s, t) ==
    {"NavRef", "CompTracks", "BTInterpolation", "depthReference",
     "depthFilterType", "depthInterpolation", "depthComposite", "depthAvgMethod",
     "depthValidMethod", "edgeRecEdgeMethod", "edgeVelMethod",
     "WTEnsInterpolation", "WTCellInterpolation"}
    \cup BtKeys(s) \cup WtKeys(s)
    \cup (IF t.gps /\ t.gga THEN GgaKeys(s) ELSE {})
    \cup (IF t.gps /\ t.vtg THEN HdopKeys(s) ELSE {})
    \cup (IF t.gps THEN {"GPSInterpolation"} ELSE {})

\* C8 (as claimed): a snapshot returned by current_settings or by one of the
\* two bundles has every key apply_settings reads for every transect.
C8_SnapshotComplete ==
    (op.name \in {"current_settings", "qrev_default_settings",
                  "no_filter_interp_settings"} /\ op.err = NoError) =>
        \A n \in DOMAIN transects : KeysRead(settings, transects[n]) \subseteq DOMAIN settings

\* C9 (as claimed): after apply_settings the snapshot is as it was passed.
C9_SnapshotNotMutated ==
    Applied => settings = arg

NoFilterValues(s) ==
    /\ \A k \in {"WTdFilter", "WTwFilter", "WTsmoothFilter", "WTsnrFilter",
                 "WTwtDepthFilter", "BTdFilter", "BTwFilter", "BTsmoothFilter",
                 "ggaAltitudeFilter", "GPSHDOPFilter", "GPSSmoothFilter",
                 "CompTracks", "depthComposite"} :
          k \in DOMAIN s /\ s[k] = "Off"
    /\ \A k \in {"BTInterpolation", "WTEnsInterpolation", "WTCellInterpolation",
                 "GPSInterpolation", "depthInterpolation", "depthFilterType"} :
          k \in DOMAIN s /\ s[k] = "None"
    /\ "depthReference" \in DOMAIN s /\ s["depthReference"] \in DepthSources

\* C11 (as claimed): no_filter_interp_settings returns without error a bundle
\* with every filter off and every interpolation none, and __init__ does not
\* end in the AttributeError of that bundle.
C11_NoFilterBundle ==
    /\ op.name = "no_filter_interp_settings" =>
          (op.err = NoError /\ NoFilterValues(settings))
    /\ ~(op.name = "__init__" /\ op.err = "AttributeError")

\* C12 (as claimed): change_magvar and change_h_offset return normally with
\* the new value on a targeted transect, and they re-run apply_settings
\* exactly when some transect's selected heading source is the internal one.
C12_HeadingRecompute ==
    op.name \in {"change_magvar", "change_h_offset"} =>
       /\ op.err = NoError
       /\ \E n \in DOMAIN transects :
             transects[n].sensors =
                (IF op.name = "change_magvar" THEN "magvar" ELSE "h_offset")
       /\ (trace # <<>>) <=>
             (\E n \in DOMAIN transects : transects[n].heading = "internal")

\* mean_discharges(meas): the discharges the means are taken over, those of
\* the checked transects.
mean_discharges(ts, q) ==
    { <<n, q[n]>> : n \in {i \in DOMAIN ts \cap DOMAIN q : ts[i].checked} }

\* compute_measurement_properties: checked_idx, the transects the aggregate
\* row of every property is taken over.
checked_idx(ts) == {n \in DOMAIN ts : ts[n].checked}

\* C13 (as claimed): a transect unchecked by selected_transects_changed is in
\* neither the mean discharges nor the aggregate properties afterwards, and
\* its own discharge and extrapolation parameters are as before the call.
C13_UncheckFrame ==
    [][ (op'.name = "selected_transects_changed" /\ op'.err = NoError) =>
          \A n \in DOMAIN transects \cap DOMAIN discharge :
             (transects[n].checked /\ ~transects'[n].checked) =>
                /\ \A e \in mean_discharges(transects', discharge') : e[1] # n
                /\ n \notin checked_idx(transects')
                /\ discharge'[n] = discharge[n]
                /\ transects'[n].extrap = transects[n].extrap ]_vars

\* C14 (as claimed): a load that yields zero transects ends in an error;
\* __init__ never returns a measurement with an empty transect list and no
\* discharge or uncertainty.
C14_ZeroTransectsFatal ==
    (op.name = "__init__" /\ Len(transects) = 0) => op.err # NoError

\* C15 (as claimed): from a state reached by apply_settings(s), applying s
\* with only the navigation reference changed and then s again reproduces the
\* navigation reference, the composite-track state, the moving-bed test
\* selection and the discharge of every transect.
C15_ReferenceRoundTrip ==
    [][ (op'.name = "nav_round_trip" /\ op'.err = NoError) =>
          /\ \A n \in DOMAIN transects :
                /\ transects'[n].nav = transects[n].nav
                /\ transects'[n].composite = transects[n].composite
          /\ mb_tests' = mb_tests
          /\ discharge' = discharge ]_vars


\* The validity thresholds a caller supplies to change_extrapolation.
SuppliedThresholds == {"10"}

\* C16 (as claimed): the fit keeps its sub-section extents and validity
\* threshold through apply_settings, selected_transects_changed and a
\* change_extrapolation that supplies none, and an automatic fit computed by
\* such a call uses the threshold held before the call.
C16_FitParametersKept ==
    [][ (extrap_fit.exists /\ op'.err = NoError /\
         op'.name \in {"apply_settings", "nav_round_trip", "change_extrapolation",
                       "selected_transects_changed"}) =>
          /\ extrap_fit'.subsection = extrap_fit.subsection
          /\ \/ extrap_fit'.threshold = extrap_fit.threshold
             \/ /\ op'.name = "change_extrapolation"
                /\ extrap_fit'.threshold \in SuppliedThresholds
          /\ (extrap_fit'.fit_method = "Automatic" /\ extrap_fit'.sel_fit.exponent.kind = "fit")
                => extrap_fit'.sel_fit.exponent.val = extrap_fit'.threshold ]_vars


\* C17 (as claimed): after every change_extrapolation call the discharge
\* sensitivity has been recomputed for the new fit, and the discharge of all
\* transects has been recomputed exactly when compute_q was true.
C17_SensitivityAfterFit ==
    (op.name = "change_extrapolation" /\ op.err = NoError) =>
       /\ At("q_sensitivity") # {}
       /\ extrap_fit.q_sensitivity.computed
       /\ extrap_fit.q_sensitivity.fit = extrap_fit.sel_fit
       /\ (At("compute_discharge") # {}) <=> (arg["compute_q"] = "True")

\* C18 (as claimed): after a load with at least one transect the measurement
\* holds an extrapolation fit with a discharge sensitivity, one discharge per
\* transect, an uncertainty and a QA result, for every processing type.
C18_LoadedComplete ==
    (op.name = "__init__" /\ op.err = NoError /\ Len(transects) > 0) =>
       /\ extrap_fit.exists
       /\ extrap_fit.q_sensitivity.computed
       /\ Len(discharge) = Len(transects)
       /\ uncertainty.exists
       /\ qa.exists

\* A transect without GPS, as far as the keys apply_settings reads go.
NoGpsTransect == [gps |-> FALSE, gga |-> FALSE, vtg |-> FALSE]

\* Some transect has no GPS, or has GPS but lacks the GGA or the VTG source.
PartialGps(ts) == \E n \in DOMAIN ts : ~(ts[n].gps /\ ts[n].gga /\ ts[n].vtg)

\* C19 (as claimed): on a measurement in which a transect lacks GPS, GGA or
\* VTG, apply_settings on a snapshot that has every key read outside the GPS
\* block completes; the GPS filters and interpolation run for the sources
\* each transect has and every other stage runs for every transect.
C19_GpsStagesBySource ==
    (Applied /\ PartialGps(transects) /\
     KeysRead(arg, NoGpsTransect) \subseteq DOMAIN arg) =>
       /\ op.err = NoError
       /\ \A n \in DOMAIN transects :
             /\ \A name \in AlwaysStages : AtT(name, n) # {}
             /\ (AtT("gps_interpolation", n) # {}) <=> transects[n].gps
             /\ (AtT("gga_filters", n) # {}) <=> (transects[n].gps /\ transects[n].gga)
             /\ (AtT("vtg_filters", n) # {}) <=> (transects[n].gps /\ transects[n].vtg)

\* The distinct values the checked transects hold for an attribute.
CheckedSet(f) == { transects[n][f] : n \in {i \in DOMAIN transects : transects[i].checked} }
\* The distinct edge coefficients of the checked transects.
CheckedCoefs(ftype, fcust) ==
    { edge_coef(transects[n][ftype], transects[n][fcust]) :
         n \in {i \in DOMAIN transects : transects[i].checked} }

\* C20 (as claimed): in the export every textual summary field is "Varies"
\* when the checked transects hold two or more distinct values and the single
\* common value otherwise, for every set of checked flags.
C20_VariesOrCommon ==
    op.name = "xml_output" =>
       /\ op.err = NoError
       /\ \A p \in { <<"LeftType", "left_type">>, <<"RightType", "right_type">>,
                     <<"TemperatureSource", "temperature">>,
                     <<"SpeedofSound", "speed_of_sound">> } :
             IF Cardinality(CheckedSet(p[2])) >= 2 THEN arg[p[1]] = "Varies"
             ELSE arg[p[1]] \in CheckedSet(p[2])
       /\ IF Cardinality(CheckedSet("salinity")) >= 2 THEN arg["Salinity"] = "Varies"
          ELSE arg["Salinity"] \in { Format1f(v) : v \in CheckedSet("salinity") }
       /\ \A p \in { <<"LeftEdgeCoefficient", "left_type", "left_cust">>,
                     <<"RightEdgeCoefficient", "right_type", "right_cust">> } :
             IF Cardinality(CheckedCoefs(p[2], p[3])) >= 2 THEN arg[p[1]] = "Varies"
             ELSE arg[p[1]] \in { Format4f(c) : c \in CheckedCoefs(p[2], p[3]) }


\* The last compass evaluation has an error pattern followed by a digit.
DigitAfterPattern ==
    /\ compass_eval # << >>
    /\ compass_eval[Len(compass_eval)].pattern \in {TypicalPattern, TotalPattern}
    /\ \E i \in DOMAIN compass_eval[Len(compass_eval)].after :
          compass_eval[Len(compass_eval)].after[i] = "1"

\* C21 (as claimed): the export does not raise on the compass evaluation; it
\* reports the undetermined result when the last evaluation has no error
\* pattern or no digit after it, 'Max <error>' only when an error figure was
\* found, and that no evaluation exists only when the list is empty.
C21_CompassResult ==
    op.name = "xml_output" =>
       /\ op.err = NoError
       /\ (compass_eval # << >> /\ ~DigitAfterPattern) => arg.text = "Yes"
       /\ arg.text = "Max" => DigitAfterPattern
       /\ arg.text = "No" => compass_eval = << >>


\* The values of the checked transects that are not missing, as a list.
CheckedPresent(val) ==
    NotNan([i \in DOMAIN IdxWhere([n \in DOMAIN transects |-> transects[n].checked]) |->
               val[IdxWhere([n \in DOMAIN transects |-> transects[n].checked])[i]]])

\* C22 (as claimed): every aggregate over the checked transects skips the
\* missing per-transect values, and is missing, without an error, when all
\* values are missing or no transect is checked.
C22_AggregatesSkipMissing ==
    op.name = "aggregates" =>
       LET totals == CheckedPresent([n \in DOMAIN discharge |-> discharge[n].total])
           widths == CheckedPresent([n \in DOMAIN transects |->
                        IF transects[n].track THEN transects[n].width ELSE NaNum])
           depths == CheckedPresent([n \in DOMAIN transects |->
                        IF transects[n].track THEN transects[n].depth ELSE NaNum])
       IN /\ op.err = NoError
          /\ arg.total_mean = IF totals = << >> THEN NaMean
                              ELSE [nan |-> FALSE, sum |-> SumSeq(totals), n |-> Len(totals)]
          /\ arg.width = IF widths = << >> THEN NaMean
                         ELSE [nan |-> FALSE, sum |-> SumSeq(widths), n |-> Len(widths)]
          /\ arg.max_depth = IF depths = << >> THEN NaNum ELSE Num(MaxSeq(depths))


\* C23 (as claimed): a completed apply_settings(s) leaves on every transect's
\* boat filter the four bottom-track choices of s (difference velocity,
\* vertical velocity, beam count, smoothness), the beam-count and smoothness
\* choices whatever the vertical-velocity mode is.
C23_BtFilterChoices ==
    (AppliedOk /\ {"BTdFilter", "BTwFilter", "BTbeamFilter", "BTsmoothFilter"}
                     \subseteq DOMAIN arg) =>
       \A n \in DOMAIN transects :
          /\ transects[n].bt.d_filter = arg["BTdFilter"]
          /\ transects[n].bt.w_filter = arg["BTwFilter"]
          /\ transects[n].bt.beam_filter = arg["BTbeamFilter"]
          /\ transects[n].bt.smooth_filter = arg["BTsmoothFilter"]


\* C24 (as claimed): when moving-bed tests exist, after load and after every
\* completed apply_settings the use-to-correct selection is the one computed
\* for the navigation reference active on the transects, and apply_settings
\* recomputes it at a transect exactly when that transect's reference
\* differed from the snapshot's.
C24_SelectionForActiveReference ==
    [][ (op'.name \in {"__init__", "apply_settings"} /\ op'.err = NoError
            /\ mb_tests'.n > 0) =>
          /\ \A n \in DOMAIN transects' :
                mb_tests' = auto_use_2_correct(mb_tests', transects'[n].nav)
          /\ op'.name = "apply_settings" =>
                \A n \in DOMAIN transects :
                   (\E i \in DOMAIN trace' : trace'[i] = <<"auto_use_2_correct", n>>)
                      <=> transects[n].nav # arg'["NavRef"] ]_vars


\* C25 (as claimed): in a completed apply_settings the extrapolation step
\* depends only on the fit state: with no fit one is created and fit
\* automatically; an Automatic fit is recomputed; with a Manual fit the
\* top/bottom/exponent the fit stored are reapplied to every transect and
\* stay the fit's, whatever extrapolation entries the snapshot carries; and
\* the fit mode is not changed.
C25_ExtrapStepByFitState ==
    [][ (op'.name = "apply_settings" /\ op'.err = NoError /\ Len(transects) > 0) =>
          /\ ~extrap_fit.exists =>
                /\ \E i \in DOMAIN trace' : trace'[i][1] = "ComputeExtrap"
                /\ extrap_fit'.exists /\ extrap_fit'.fit_method = "Automatic"
          /\ (~extrap_fit.exists \/ extrap_fit.fit_method = "Automatic") =>
                /\ \E i \in DOMAIN trace' : trace'[i][1] = "process_profiles"
                /\ \A n \in DOMAIN transects' :
                      transects'[n].extrap = extrap_fit'.sel_fit
          /\ (extrap_fit.exists /\ extrap_fit.fit_method = "Manual") =>
                /\ extrap_fit'.sel_fit = extrap_fit.sel_fit
                /\ \A n \in DOMAIN transects' :
                      transects'[n].extrap = extrap_fit.sel_fit
          /\ extrap_fit.exists => extrap_fit'.fit_method = extrap_fit.fit_method ]_vars


\* C26: after every change_extrapolation call that returns, all transects
\* store one and the same top method, bottom method and exponent: in Manual
\* mode the supplied values, with fit mode Manual; in Automatic mode the last
\* entry of the newly computed fit list, with fit mode Automatic.
C26_OneExtrapolationForAll ==
    (op.name = "change_extrapolation" /\ op.err = NoError) =>
       /\ \A n, m \in DOMAIN transects : transects[n].extrap = transects[m].extrap
       /\ extrap_fit.fit_method \in {"Manual", "Automatic"}
       /\ extrap_fit.fit_method = "Manual" =>
             \A n \in DOMAIN transects :
                transects[n].extrap =
                   [ top_method |-> "Constant", bot_method |-> "No Slip",
                     exponent |-> ExpToken("user", "0.25", {}) ]
       /\ extrap_fit.fit_method = "Automatic" =>
             \A n \in DOMAIN transects :
                /\ transects[n].extrap = extrap_fit.sel_fit
                /\ extrap_fit.sel_fit =
                      process_profiles(extrap_fit, transects).sel_fit

\* C26 witness: an Automatic call that supplied a new validity threshold has
\* returned on a measurement of several transects, loaded with different
\* exponents, and every transect holds the newly fitted exponent.
C26_Witness ==
    /\ op.name = "change_extrapolation" /\ op.err = NoError
    /\ Len(transects) = NumTransects
    /\ extrap_fit.fit_method = "Automatic"
    /\ extrap_fit.threshold = "10"
    /\ \A n \in DOMAIN transects : transects[n].extrap.exponent.val = "10"


\* The snapshot current_settings would read from transect t.
SnapshotOf(t) ==
    CurrentDepthExtrapEdge(CurrentVtg(CurrentGga(CurrentBoatWater(t), t), t),
                           t, extrap_fit)

\* C27 (as claimed): after every apply_settings that completes, the snapshot
\* current_settings reads from the first checked transect (the first one
\* when none is checked) is the one it would read from any other transect.
C27_SameSnapshotEverywhere ==
    AppliedOk =>
       \A n \in DOMAIN transects :
          SnapshotOf(transects[n]) = SnapshotOf(transects[FirstIdx(transects)])


\* C28: in every state reached after a load with at least one transect, by
\* any sequence of apply_settings, change_* and selected_transects_changed
\* calls, the discharge list has exactly one entry per transect, and an
\* operation that rewrites the list leaves at index n the discharge computed
\* from transects[n], unchecked transects included.
C28_OneDischargePerTransect ==
    [][ (op'.name # "load_trdi" /\ ~(op'.name = "__init__" /\ op'.err # NoError)
            /\ Len(transects') > 0) =>
          /\ DOMAIN discharge' = DOMAIN transects'
          /\ (\E i \in DOMAIN trace' : trace'[i][1] = "compute_discharge") =>
                \A n \in DOMAIN transects' :
                   discharge'[n].data = DataKey(transects'[n]) ]_vars


\* C28 witness: selected_transects_changed has returned on a measurement of
\* several transects of which one is unchecked, and the discharge list has an
\* entry for each of them.
C28_Witness ==
    /\ op.name = "selected_transects_changed" /\ op.err = NoError
    /\ Len(transects) = NumTransects
    /\ \E n \in DOMAIN transects : ~transects[n].checked
    /\ \E n \in DOMAIN transects : transects[n].checked
    /\ \E i \in DOMAIN trace : trace[i][1] = "compute_discharge"
    /\ Len(discharge) = NumTransects


\* C29 (as claimed): xml_output writes a moving-bed test type and result for
\* every measurement that has moving-bed tests, also when no test is marked
\* selected, and never fails because no test is selected.
C29_MovingBedNodesWritten ==
    op.name = "xml_output" =>
       /\ op.err = NoError
       /\ mb_tests.n > 0 =>
             /\ arg.type \in {"Loop", "Stationary"}
             /\ arg.result \in {"Yes", "No", "Unknown"}


\* The depth series the plotted transect has: beams 1 to 4, and the vertical
\* beam and the depth sounder when it carries them.
TransectSeries ==
    {"beam1", "beam2", "beam3", "beam4"}
    \cup (IF plot.vb THEN {"vb"} ELSE {}) \cup (IF plot.ds THEN {"ds"} ELSE {})

\* C30 (as claimed): after create() and after every change(), each depth
\* series the transect has is plotted and is visible exactly when its
\* checkbox is checked, also for a transect with a depth sounder and no
\* vertical beam, and change() does not fail.
C30_SeriesFollowCheckboxes ==
    op.name \in {"create", "change"} =>
       /\ op.err = NoError
       /\ \A s \in TransectSeries :
             plot.lines[s] = IF plot.checked[s] THEN "visible" ELSE "hidden"

=============================================================================
